---- MODULE Spec2Model ----
(***************************************************************************)
(* anime-ranker: the persistent store (database/database.ts over           *)
(* node:sqlite) with its insert / insertMany / delete / deleteMany /       *)
(* getAll / mediaDiff operations, as a state machine over the three tables *)
(* Ranks, Media and Deleted.                                               *)
(*                                                                         *)
(* Strings whose characters matter (titles, provider names, the            *)
(* "provider:title" identifiers of mediaDiff) are sequences of character   *)
(* codes, so that ORDER BY and String.split work on what they work on in   *)
(* the code.                                                               *)
(***************************************************************************)
EXTENDS Integers, Sequences, FiniteSets, TLC

VARIABLES
    Media,          \* rows of table Media, as this connection sees them
    Ranks,          \* rows of table Ranks, as this connection sees them
    Deleted,        \* rows of table Deleted, as this connection sees them
    committed,      \* the three tables as of the last commit (what is on disk)
    inTransaction,  \* TRUE while a BEGIN TRANSACTION of this connection is open
    lastCall,       \* the last call that returned: what it threw or returned
    service,        \* data.Page.media of the answer of the scoring service to a search
    now,            \* Date.now(), in milliseconds
    throttle,       \* the window of the throttle of the resolver
    fetches,        \* the throttled requests of the resolver, in the order of their submission
    calls,          \* the calls of getRanking: where each one is
    run             \* the call of updateDatabase: where it is and what it holds

\* the state of the resolver, of the scoring service and of the update run
resolverVars == <<service, now, throttle, fetches, calls, run>>

vars == <<Media, Ranks, Deleted, committed, inTransaction, lastCall,
          service, now, throttle, fetches, calls, run>>

-----------------------------------------------------------------------------
(* Bounds of the model *)

\* rows held by Media and Deleted together
MaxRows == 2
\* length of the list given to insertMany, deleteMany and mediaDiff
MaxList == 2

-----------------------------------------------------------------------------
(* Values *)

\* Every value of a field that may be absent is a record, so that a value can be
\* compared with NULL and with Undefined.
\* SQL NULL, as node:sqlite returns it (JavaScript null)
NULL == [null |-> TRUE]
\* JavaScript undefined: an absent field of the domain model
Undefined == [undefined |-> TRUE]
\* a number and a string in such a field
Num(n) == [num |-> n]
Str(s) == [str |-> s]

\* the character ':' that mediaDiff joins and splits identifiers with
Colon == 58

Providers == {"Hulu", "Netflix"}

\* the characters of a provider name
ProviderChars(p) ==
    IF p = "Hulu" THEN <<72, 117, 108, 117>>
    ELSE <<78, 101, 116, 102, 108, 105, 120>>

mediaType == {"TV", "MOVIE", "MANGA"}

\* titles "A", "B" and "C"
TitleA == <<65>>
TitleB == <<66>>
TitleC == <<67>>
\* title "A:B", a title with a colon (cf. "Pokemon: Arceus and The Jewel of Life")
TitleColon == <<65, Colon, 66>>

Titles == {TitleA, TitleB}
DiffTitles == {TitleA, TitleB, TitleC, TitleColon}

RankIds == {Str("Anilist:2001"), Str("Anilist:188388")}

\* a < b for two strings given as character codes (SQLite BINARY collation,
\* JavaScript code unit order)
RECURSIVE StrLess(_, _)
StrLess(a, b) ==
    IF b = <<>> THEN FALSE
    ELSE IF a = <<>> THEN TRUE
    ELSE IF Head(a) # Head(b) THEN Head(a) < Head(b)
    ELSE StrLess(Tail(a), Tail(b))

\* the primary key of a row or of an entry
KeyOf(r) == [provider |-> r.provider, providerTitle |-> r.providerTitle]

KeysOf(rows) == {KeyOf(r) : r \in rows}

\* the elements of a sequence
Range(s) == {s[i] : i \in 1..Len(s)}

\* all sequences over S of length 0..n
SeqsUpTo(S, n) == UNION {[1..k -> S] : k \in 0..n}

-----------------------------------------------------------------------------
(* media-schema.ts: the codecs between the domain model and the SQL rows *)

\* a URL object, and its encoding as the href string
URLOf(href) == [href |-> href]
stringToHttpURL_encode(url) == url.href
stringToHttpURL_decode(urlString) == [href |-> urlString]

\* a Date object (milliseconds), and its encoding as an ISO 8601 string
DateOf(ms) == [ms |-> ms]
isoDatetimeToDate_encode(date) == [iso |-> date.ms]
isoDatetimeToDate_decode(isoString) == [ms |-> isoString.iso]

\* optionalNumber ?? null  and  nullableNumber ?? undefined
nullableNumberToUndefined_encode(optionalNumber) ==
    IF optionalNumber = Undefined THEN NULL ELSE optionalNumber
\* a decode that hands the NULL of the column on
nullableNumberKept(nullableNumber) == nullableNumber

nullableNumberToUndefined_decode(nullableNumber) ==
    IF nullableNumber = NULL THEN Undefined ELSE nullableNumber

nullableRankIdToUndefined_encode(optionalRankId) ==
    IF optionalRankId = Undefined THEN NULL ELSE optionalRankId
nullableRankIdToUndefined_decode(nullableRankId) ==
    IF nullableRankId = NULL THEN Undefined ELSE nullableRankId

\* rankSchema.safeEncode(entry).success: every required field of a Rank is there
\* (score is optional)
rankSchema_canEncode(entry) ==
    /\ entry.rankId # Undefined
    /\ entry.rankerTitle # Undefined
    /\ entry.rankerURL # Undefined
    /\ entry.ranker # Undefined
    /\ entry.lastUpdated # Undefined

\* rankSchema.safeEncode(entry).data: the row for table Ranks
rankSchema_encode(entry) ==
    [rankId |-> entry.rankId,
     rankerTitle |-> entry.rankerTitle,
     rankerURL |-> stringToHttpURL_encode(entry.rankerURL),
     score |-> nullableNumberToUndefined_encode(entry.score),
     ranker |-> entry.ranker,
     lastUpdated |-> isoDatetimeToDate_encode(entry.lastUpdated)]

\* mediaAndRankIdSchema.encode(entry): the row for table Media
mediaAndRankIdSchema_encode(entry) ==
    [providerTitle |-> entry.providerTitle,
     type |-> entry.type,
     providerURL |-> stringToHttpURL_encode(entry.providerURL),
     provider |-> entry.provider,
     rankId |-> nullableRankIdToUndefined_encode(entry.rankId)]

-----------------------------------------------------------------------------
(* media-schema.ts: the constraints of the tables *)

\* a column "score" INTEGER without a range
anyScore(score) == TRUE

\* the CHECK on Ranks.score: NULL, or 0..100
ScoreCheck(score) == score = NULL \/ (score.num >= 0 /\ score.num <= 100)

\* a table Media without its primary key: no row is refused
noPrimaryKey(media, row) == FALSE

\* Media: PRIMARY KEY ("provider", "providerTitle") refuses the row
MediaPrimaryKeyConflict(media, row) == KeyOf(row) \in KeysOf(media)

\* a column "rankId" TEXT without REFERENCES: no row is refused
noForeignKey(ranks, row) == FALSE

\* Media: "rankId" TEXT REFERENCES Ranks ("rankId") refuses the row
MediaForeignKeyViolation(ranks, row) ==
    row.rankId # NULL /\ row.rankId \notin {r.rankId : r \in ranks}

-----------------------------------------------------------------------------
(* The entries that callers insert *)

\* lastUpdated is the time in ms, 0 for an entry without one
Entry(provider, title, type, rankId, score, rankerTitle, lastUpdated) ==
    [providerTitle |-> title,
     type |-> type,
     providerURL |-> URLOf(<<"https://", provider, title>>),
     provider |-> provider,
     rankId |-> rankId,
     rankerTitle |-> rankerTitle,
     rankerURL |-> IF rankerTitle = Undefined THEN Undefined
                   ELSE URLOf(<<"https://anilist.co/", rankId>>),
     score |-> score,
     ranker |-> IF rankerTitle = Undefined THEN Undefined ELSE Str("Anilist"),
     lastUpdated |-> IF lastUpdated = 0 THEN Undefined ELSE DateOf(lastUpdated)]

\* title "A" on Hulu, ranked 85
rank85OnHulu ==
    Entry("Hulu", TitleA, "TV", Str("Anilist:2001"), Num(85), Str("Gurren Lagann"), 1)
\* the same title on Netflix, the same ranking resolved later with another score
rank79OnNetflix ==
    Entry("Netflix", TitleA, "TV", Str("Anilist:2001"), Num(79), Str("Tengen Toppa"), 2)
\* the key of rank85OnHulu again, without a ranking and of another type
noRankOnHulu ==
    Entry("Hulu", TitleA, "MOVIE", Undefined, Undefined, Undefined, 0)
\* a ranking without a score
undefinedScore ==
    Entry("Netflix", TitleB, "TV", Str("Anilist:188388"), Undefined, Str("DIGIMON"), 1)
\* a rankId and nothing else of a ranking
pointingToRank ==
    Entry("Hulu", TitleB, "TV", Str("Anilist:2001"), Undefined, Undefined, 0)
\* a score out of range
invalidScore ==
    Entry("Netflix", TitleB, "MOVIE", Str("Anilist:188388"), Num(101), Str("DIGIMON"), 2)
\* a score below the range
negativeScore ==
    Entry("Hulu", TitleB, "TV", Str("Anilist:2001"), Num(-1), Str("Gurren Lagann"), 2)

Entries ==
    {rank85OnHulu, rank79OnNetflix, noRankOnHulu, undefinedScore, pointingToRank,
     invalidScore, negativeScore}

Keys == [provider : Providers, providerTitle : Titles]
DiffKeys == [provider : Providers, providerTitle : DiffTitles]

-----------------------------------------------------------------------------
(* database.ts: the statements and methods, on the three tables db *)

EmptyTables == [Media |-> {}, Ranks |-> {}, Deleted |-> {}]

\* INSERT OR REPLACE INTO Ranks: the whole row is replaced
replaceRank(ranks, row) == {r \in ranks : r.rankId # row.rankId} \cup {row}

\* INSERT INTO Ranks (...) VALUES (...)
\* ON CONFLICT ("rankId") DO UPDATE SET "score" = excluded, "lastUpdated" = excluded
upsertRank(ranks, row) ==
    IF \E r \in ranks : r.rankId = row.rankId
    THEN {IF r.rankId = row.rankId
          THEN [r EXCEPT !.score = row.score, !.lastUpdated = row.lastUpdated]
          ELSE r : r \in ranks}
    ELSE ranks \cup {row}

\* an insert with INSERT OR REPLACE INTO Media: the row of a live key is replaced
insertOrReplace(db, entry) ==
    LET mediaRow == mediaAndRankIdSchema_encode(entry)
        ranks1 == IF rankSchema_canEncode(entry)
                  THEN upsertRank(db.Ranks, rankSchema_encode(entry))
                  ELSE db.Ranks
    IN  IF MediaForeignKeyViolation(ranks1, mediaRow) THEN [db |-> db, threw |-> TRUE]
        ELSE [db |-> [Media |-> {m \in db.Media : KeyOf(m) # KeyOf(mediaRow)} \cup {mediaRow},
                      Ranks |-> ranks1,
                      Deleted |-> db.Deleted],
              threw |-> FALSE]

\* Database.insert: the tables after the call, and whether it threw. A statement
\* that fails changes nothing, the statements before it stay done.
insert(db, entry) ==
    LET maybeRank == rankSchema_canEncode(entry)
        rankRow == rankSchema_encode(entry)
        rankThrows == maybeRank /\ ~ScoreCheck(rankRow.score)
        ranks1 == IF maybeRank /\ ~rankThrows THEN upsertRank(db.Ranks, rankRow)
                  ELSE db.Ranks
        mediaRow == mediaAndRankIdSchema_encode(entry)
    IN  IF rankThrows THEN [db |-> db, threw |-> TRUE]
        ELSE IF \/ MediaPrimaryKeyConflict(db.Media, mediaRow)
                \/ MediaForeignKeyViolation(ranks1, mediaRow)
        THEN [db |-> [db EXCEPT !.Ranks = ranks1], threw |-> TRUE]
        ELSE [db |-> [db EXCEPT !.Ranks = ranks1, !.Media = @ \cup {mediaRow}],
              threw |-> FALSE]

\* the loop of Database.insertMany: stops at the first insert that throws
RECURSIVE insertLoop(_, _)
insertLoop(db, mediaList) ==
    IF mediaList = <<>> THEN [db |-> db, threw |-> FALSE]
    ELSE LET r == insert(db, Head(mediaList))
         IN  IF r.threw THEN r ELSE insertLoop(r.db, Tail(mediaList))

\* a delete that copies the row and keeps it in Media
deleteCopyAndKeep(db, media) ==
    LET selected == {r \in db.Media : KeyOf(r) = media}
    IN  IF selected = {} THEN [db |-> db, threw |-> TRUE]
        ELSE [db |-> [db EXCEPT !.Deleted = @ \cup selected], threw |-> FALSE]

\* a delete that removes the row without the copy
deleteWithoutCopy(db, media) ==
    LET selected == {r \in db.Media : KeyOf(r) = media}
    IN  IF selected = {} THEN [db |-> db, threw |-> TRUE]
        ELSE [db |-> [db EXCEPT !.Media = @ \ selected], threw |-> FALSE]

\* a delete that also removes the rows of Ranks that no row of Media points to
deleteAndCollect(db, media) ==
    LET selected == {r \in db.Media : KeyOf(r) = media}
        kept == db.Media \ selected
    IN  IF selected = {} THEN [db |-> db, threw |-> TRUE]
        ELSE [db |-> [Media |-> kept,
                      Deleted |-> db.Deleted \cup selected,
                      Ranks |-> {r \in db.Ranks : \E m \in kept : m.rankId = r.rankId}],
              threw |-> FALSE]

\* Database.delete: INSERT INTO Deleted SELECT * FROM Media WHERE key; throws when
\* that changed no row; DELETE FROM Media WHERE key
delete(db, media) ==
    LET selected == {r \in db.Media : /\ r.provider = media.provider
                                      /\ r.providerTitle = media.providerTitle}
        changes == Cardinality(selected)
    IN  IF changes = 0 THEN [db |-> db, threw |-> TRUE]
        ELSE [db |-> [db EXCEPT !.Deleted = @ \cup selected, !.Media = @ \ selected],
              threw |-> FALSE]

\* the loop of Database.deleteMany: every media is tried, those that threw are kept
RECURSIVE deleteLoop(_, _, _)
deleteLoop(db, mediaList, errors) ==
    IF mediaList = <<>> THEN [db |-> db, errors |-> errors]
    ELSE LET r == delete(db, Head(mediaList))
         IN  IF r.threw THEN deleteLoop(db, Tail(mediaList), Append(errors, Head(mediaList)))
             ELSE deleteLoop(r.db, Tail(mediaList), errors)

-----------------------------------------------------------------------------
(* database.ts: getAll *)

\* the options of getAll: provider is Undefined or Str(provider); rank is Undefined,
\* Bool(TRUE), Bool(FALSE) or MinimumScore(n)
Bool(b) == [bool |-> b]
MinimumScore(n) == [minimumScore |-> n]

\* FROM Media LEFT OUTER JOIN Ranks USING ("rankId"), SELECT Media.*, Ranks.*:
\* one object per pair of rows, the columns of Ranks NULL without a partner. Both
\* tables have a column rankId; the object keeps the one of Ranks, the later one.
leftOuterJoin(media, ranks) ==
    UNION {LET partners == {r \in ranks : m.rankId # NULL /\ r.rankId = m.rankId}
           IN  IF partners = {}
               THEN {[providerTitle |-> m.providerTitle, type |-> m.type,
                      providerURL |-> m.providerURL, provider |-> m.provider,
                      rankId |-> NULL, rankerTitle |-> NULL, rankerURL |-> NULL,
                      score |-> NULL, ranker |-> NULL, lastUpdated |-> NULL]}
               ELSE {[providerTitle |-> m.providerTitle, type |-> m.type,
                      providerURL |-> m.providerURL, provider |-> m.provider,
                      rankId |-> r.rankId, rankerTitle |-> r.rankerTitle,
                      rankerURL |-> r.rankerURL, score |-> r.score,
                      ranker |-> r.ranker, lastUpdated |-> r.lastUpdated] : r \in partners}
           : m \in media}

\* FROM Media INNER JOIN Ranks USING ("rankId")
innerJoin(media, ranks) == {j \in leftOuterJoin(media, ranks) : j.rankId # NULL}

\* SELECT * FROM Media: no column of Ranks; the decoding finds those fields absent
selectMedia(media) ==
    {[providerTitle |-> m.providerTitle, type |-> m.type,
      providerURL |-> m.providerURL, provider |-> m.provider,
      rankId |-> m.rankId, rankerTitle |-> NULL, rankerURL |-> NULL,
      score |-> NULL, ranker |-> NULL, lastUpdated |-> NULL] : m \in media}

\* WHERE score > minimumScore
scoreAbove(row, minimumScore) == row.score # NULL /\ row.score.num > minimumScore

\* WHERE score >= minimumScore: a NULL score compares to NULL, which is not true
scoreAtLeast(row, minimumScore) == row.score # NULL /\ row.score.num >= minimumScore

\* ORDER BY "providerTitle" ASC, "provider" ASC: a goes before b
titleOrder(a, b) ==
    \/ StrLess(a.providerTitle, b.providerTitle)
    \/ /\ a.providerTitle = b.providerTitle
       /\ StrLess(ProviderChars(a.provider), ProviderChars(b.provider))

\* ORDER BY Ranks."score" ASC NULLS LAST, Media."providerTitle" ASC,
\* Media."provider" ASC
scoreOrderAscending(a, b) ==
    IF a.score # NULL /\ b.score # NULL /\ a.score.num # b.score.num
    THEN a.score.num < b.score.num
    ELSE IF (a.score = NULL) # (b.score = NULL) THEN b.score = NULL
    ELSE titleOrder(a, b)

\* ORDER BY Ranks."score" DESC NULLS LAST, Media."providerTitle" ASC,
\* Media."provider" ASC: a goes before b
scoreOrder(a, b) ==
    IF a.score # NULL /\ b.score # NULL /\ a.score.num # b.score.num
    THEN a.score.num > b.score.num
    ELSE IF (a.score = NULL) # (b.score = NULL) THEN b.score = NULL
    ELSE titleOrder(a, b)

\* the rows in the order of an ORDER BY; rows that the order does not tell apart
\* come in any one order
RECURSIVE orderByScore(_)
orderByScore(rows) ==
    IF rows = {} THEN <<>>
    ELSE LET first == CHOOSE a \in rows : \A b \in rows : ~scoreOrder(b, a)
         IN  <<first>> \o orderByScore(rows \ {first})

RECURSIVE orderByTitle(_)
orderByTitle(rows) ==
    IF rows = {} THEN <<>>
    ELSE LET first == CHOOSE a \in rows : \A b \in rows : ~titleOrder(b, a)
         IN  <<first>> \o orderByTitle(rows \ {first})

\* value ?? undefined, then maybeRankedMediaSchema.parse: the domain object of a row
nullToUndefined(value) == IF value = NULL THEN Undefined ELSE value

maybeRankedMediaSchema_parse(row) ==
    [providerTitle |-> row.providerTitle,
     type |-> row.type,
     providerURL |-> stringToHttpURL_decode(row.providerURL),
     provider |-> row.provider,
     rankId |-> nullToUndefined(row.rankId),
     rankerTitle |-> nullToUndefined(row.rankerTitle),
     rankerURL |-> IF nullToUndefined(row.rankerURL) = Undefined THEN Undefined
                   ELSE stringToHttpURL_decode(row.rankerURL),
     score |-> nullableNumberToUndefined_decode(row.score),
     ranker |-> nullToUndefined(row.ranker),
     lastUpdated |-> IF nullToUndefined(row.lastUpdated) = Undefined THEN Undefined
                     ELSE isoDatetimeToDate_decode(row.lastUpdated)]

\* the six statements of getAll, chosen by [options.provider, options.rank]
getAllRows(db, options) ==
    LET provider == options.provider
        rank == options.rank
        minimumScore == IF rank = Bool(TRUE) THEN 0 ELSE rank.minimumScore
    IN  IF provider = Undefined /\ rank = Undefined
        THEN orderByScore(leftOuterJoin(db.Media, db.Ranks))
        ELSE IF rank = Undefined
        THEN orderByScore({j \in leftOuterJoin(db.Media, db.Ranks) :
                              j.provider = provider.str})
        ELSE IF provider = Undefined /\ rank # Bool(FALSE)
        THEN orderByScore({j \in innerJoin(db.Media, db.Ranks) :
                              scoreAtLeast(j, minimumScore)})
        ELSE IF provider = Undefined
        THEN orderByTitle(selectMedia({m \in db.Media : m.rankId = NULL}))
        ELSE IF rank = Bool(FALSE)
        THEN orderByTitle(selectMedia({m \in db.Media : /\ m.provider = provider.str
                                                         /\ m.rankId = NULL}))
        ELSE orderByScore({j \in leftOuterJoin(db.Media, db.Ranks) :
                              /\ j.provider = provider.str
                              /\ scoreAtLeast(j, minimumScore)})

\* the runtime asserts of getAll on its results
getAllAsserts(results, options) ==
    /\ options.provider # Undefined =>
           \A i \in 1..Len(results) : results[i].provider = options.provider.str
    /\ options.rank = Bool(FALSE) =>
           \A i \in 1..Len(results) : results[i].score = Undefined
    /\ (options.rank # Undefined /\ options.rank # Bool(FALSE)) =>
           LET minimumScore == IF options.rank = Bool(TRUE) THEN 0
                               ELSE options.rank.minimumScore
           IN  \A i \in 1..Len(results) :
                   /\ results[i].score # Undefined
                   /\ results[i].score.num >= minimumScore

\* Database.getAll: what it returns, or that an assert threw
getAll(db, options) ==
    LET rows == getAllRows(db, options)
        results == [i \in 1..Len(rows) |-> maybeRankedMediaSchema_parse(rows[i])]
    IN  IF getAllAsserts(results, options)
        THEN [error |-> "none", result |-> results]
        ELSE [error |-> "AssertionError", result |-> <<>>]

\* the options a caller gives
Options ==
    [provider : {Undefined} \cup {Str(p) : p \in Providers},
     rank : {Undefined, Bool(TRUE), Bool(FALSE), MinimumScore(79), MinimumScore(80)}]

-----------------------------------------------------------------------------
(* database.ts: mediaDiff *)

\* `${entry.provider}:${entry.providerTitle}`
identifier(entry) == ProviderChars(entry.provider) \o <<Colon>> \o entry.providerTitle

\* the elements of a sequence, each once, in the order of their first occurrence:
\* the keys of new Map(list) and the elements of new Set(list)
RECURSIVE insertionOrder(_)
insertionOrder(list) ==
    IF list = <<>> THEN <<>>
    ELSE LET front == insertionOrder(SubSeq(list, 1, Len(list) - 1))
             last == list[Len(list)]
         IN  IF last \in Range(front) THEN front ELSE Append(front, last)

\* the elements of a sequence that are in a set, and those that are not, in their order
RECURSIVE keepIn(_, _)
keepIn(list, set) ==
    IF list = <<>> THEN <<>>
    ELSE (IF Head(list) \in set THEN <<Head(list)>> ELSE <<>>) \o keepIn(Tail(list), set)

RECURSIVE dropIn(_, _)
dropIn(list, set) ==
    IF list = <<>> THEN <<>>
    ELSE (IF Head(list) \in set THEN <<>> ELSE <<Head(list)>>) \o dropIn(Tail(list), set)

\* Set.prototype.intersection: walks the smaller set, this one on a tie
setIntersection(this, other) ==
    IF Len(this) <= Len(other) THEN keepIn(this, Range(other))
    ELSE keepIn(other, Range(this))

\* Set.prototype.difference: the elements of this that are not in other
setDifference(this, other) == dropIn(this, Range(other))

\* String.prototype.split(":")
RECURSIVE split(_)
split(string) ==
    IF \A i \in 1..Len(string) : string[i] # Colon THEN <<string>>
    ELSE LET at == CHOOSE i \in 1..Len(string) :
                       /\ string[i] = Colon
                       /\ \A j \in 1..(i - 1) : string[j] # Colon
         IN  <<SubSeq(string, 1, at - 1)>> \o split(SubSeq(string, at + 1, Len(string)))

\* z.enum(providers).parse(rawProvider) succeeds
isProvider(rawProvider) == \E p \in Providers : ProviderChars(p) = rawProvider
providerOf(rawProvider) == CHOOSE p \in Providers : ProviderChars(p) = rawProvider

\* the identifiers of all rows of Media, whatever the provider
titlesOfAllProviders(db, provider) ==
    LET ordered == orderByTitle(KeysOf(db.Media))
    IN  insertionOrder([i \in 1..Len(ordered) |-> identifier(ordered[i])])

\* Database.#titles(provider): the identifiers of the rows of Media, of one
\* provider if one is given, ORDER BY "providerTitle" ASC, "provider" ASC
titles(db, provider) ==
    LET rows == IF provider = Undefined THEN db.Media
                ELSE {m \in db.Media : m.provider = provider.str}
        ordered == orderByTitle(KeysOf(rows))
    IN  insertionOrder([i \in 1..Len(ordered) |-> identifier(ordered[i])])

\* the entry of the request that the Map holds for an identifier: the last one
titlesInRequest_get(medias, key) ==
    medias[CHOOSE i \in 1..Len(medias) :
               /\ identifier(medias[i]) = key
               /\ \A j \in (i + 1)..Len(medias) : identifier(medias[j]) # key]

\* the key that mediaDiff makes of an identifier that is only in the database:
\* the first two parts of key.split(":")
onlyInDatabaseKey(key) ==
    LET parts == split(key)
    IN  [provider |-> providerOf(parts[1]),
         providerTitle |-> IF Len(parts) >= 2 THEN parts[2] ELSE <<>>]

\* the asserts and the parse on such an identifier pass
onlyInDatabaseOk(key, provider) ==
    LET parts == split(key)
    IN  /\ isProvider(parts[1])
        /\ provider = Undefined \/ providerOf(parts[1]) = provider.str
        /\ Len(parts) >= 2 /\ parts[2] # <<>>

\* a diff that takes every media of the request as not in the database
everythingIsNew(db, medias, provider) ==
    [error |-> "none",
     result |-> [inBoth |-> <<>>, onlyInDatabase |-> <<>>, notInDatabase |-> medias]]

\* Database.mediaDiff(medias, provider): what it returns, or that it threw
mediaDiff(db, medias, provider) ==
    LET titlesInRequestSet ==
            insertionOrder([i \in 1..Len(medias) |-> identifier(medias[i])])
        titlesInDatabase == titles(db, provider)
        both == setIntersection(titlesInRequestSet, titlesInDatabase)
        notIn == setDifference(titlesInRequestSet, titlesInDatabase)
        only == setDifference(titlesInDatabase, titlesInRequestSet)
    IN  IF \A i \in 1..Len(only) : onlyInDatabaseOk(only[i], provider)
        THEN [error |-> "none",
              result |->
                  [inBoth |-> [i \in 1..Len(both) |-> titlesInRequest_get(medias, both[i])],
                   onlyInDatabase |-> [i \in 1..Len(only) |-> onlyInDatabaseKey(only[i])],
                   notInDatabase |->
                       [i \in 1..Len(notIn) |-> titlesInRequest_get(medias, notIn[i])]]]
        ELSE [error |-> "AssertionError", result |-> <<>>]

-----------------------------------------------------------------------------
(* The Database object: one connection, its calls one after the other *)

Tables == [Media |-> Media, Ranks |-> Ranks, Deleted |-> Deleted]

Call(op, error, errors, result) ==
    [op |-> op, args |-> <<>>, error |-> error, errors |-> errors, result |-> result]

\* a reading call: what was asked and what came back
Query(op, args, error, result) ==
    [op |-> op, args |-> args, error |-> error, errors |-> <<>>, result |-> result]

\* the tables of the connection become db
SetTables(db) ==
    /\ Media' = db.Media
    /\ Ranks' = db.Ranks
    /\ Deleted' = db.Deleted

\* the model holds at most MaxRows rows
WithinBounds == Cardinality(Media') + Cardinality(Deleted') <= MaxRows

\* new Database(path) on a new file
\* the window of a throttle that has let nothing through
newThrottle == [currentTick |-> 0, activeCount |-> 0]

\* updateDatabase has not been called: what a run holds, and its number
NoRun ==
    [pc |-> "idle", number |-> 0, mediaFetch |-> <<>>, testOptions |-> Undefined,
     mediaToAdd |-> <<>>, mediaToDelete |-> <<>>, resolved |-> 0, error |-> "none",
     start |-> EmptyTables, previous |-> Undefined]

\* no resolver has been made
NoResolver ==
    /\ service = <<>>
    /\ now = 0
    /\ throttle = newThrottle
    /\ fetches = <<>>
    /\ calls = <<>>
    /\ run = NoRun

Init ==
    /\ Media = {}
    /\ Ranks = {}
    /\ Deleted = {}
    /\ committed = EmptyTables
    /\ inTransaction = FALSE
    /\ lastCall = Call("open", "none", <<>>, <<>>)
    /\ NoResolver

\* what the statements of insert throw
insertError(db, entry) ==
    IF ~insert(db, entry).threw THEN "none"
    ELSE IF rankSchema_canEncode(entry) /\ ~ScoreCheck(rankSchema_encode(entry).score)
    THEN "SQLITE_CONSTRAINT_CHECK"
    ELSE IF MediaPrimaryKeyConflict(db.Media, mediaAndRankIdSchema_encode(entry))
    THEN "SQLITE_CONSTRAINT_PRIMARYKEY"
    ELSE "SQLITE_CONSTRAINT_FOREIGNKEY"

\* database.insert(entry). Outside a transaction each statement commits by itself.
Insert(entry) ==
    LET r == insert(Tables, entry)
    IN  /\ SetTables(r.db)
        /\ committed' = IF inTransaction THEN committed ELSE r.db
        /\ UNCHANGED inTransaction
        /\ UNCHANGED resolverVars
        /\ lastCall' = Call("insert", insertError(Tables, entry), <<>>, <<>>)
        /\ WithinBounds

\* database.insertMany(mediaList): BEGIN TRANSACTION, the inserts, COMMIT. An insert
\* that throws ends the call there: nothing rolls back, nothing commits.
InsertMany(mediaList) ==
    IF inTransaction
    THEN /\ UNCHANGED <<Media, Ranks, Deleted, committed, inTransaction>>
         /\ UNCHANGED resolverVars
         /\ lastCall' = Call("insertMany", "SQLITE_ERROR", <<>>, <<>>)
    ELSE LET r == insertLoop(Tables, mediaList)
         IN  /\ SetTables(r.db)
             /\ committed' = IF r.threw THEN committed ELSE r.db
             /\ inTransaction' = r.threw
             /\ UNCHANGED resolverVars
             /\ lastCall' = Call("insertMany",
                                 IF r.threw THEN "SQLITE_CONSTRAINT" ELSE "none", <<>>, <<>>)
             /\ WithinBounds

\* database.delete(media)
Delete(media) ==
    LET r == delete(Tables, media)
    IN  /\ SetTables(r.db)
        /\ committed' = IF inTransaction THEN committed ELSE r.db
        /\ UNCHANGED inTransaction
        /\ UNCHANGED resolverVars
        /\ lastCall' = Call("delete", IF r.threw THEN "NotInTable" ELSE "none", <<>>, <<>>)

\* database.deleteMany(mediaList): BEGIN TRANSACTION, every delete in a try, COMMIT,
\* then one Error that lists the media whose delete threw
DeleteMany(mediaList) ==
    IF inTransaction
    THEN /\ UNCHANGED <<Media, Ranks, Deleted, committed, inTransaction>>
         /\ UNCHANGED resolverVars
         /\ lastCall' = Call("deleteMany", "SQLITE_ERROR", <<>>, <<>>)
    ELSE LET r == deleteLoop(Tables, mediaList, <<>>)
         IN  /\ SetTables(r.db)
             /\ committed' = r.db
             /\ inTransaction' = FALSE
             /\ UNCHANGED resolverVars
             /\ lastCall' = Call("deleteMany",
                                 IF Len(r.errors) > 0 THEN "SomeNotInDatabase" ELSE "none",
                                 r.errors, <<>>)

\* database.getAll(options)
GetAll(options) ==
    LET r == getAll(Tables, options)
    IN  /\ UNCHANGED <<Media, Ranks, Deleted, committed, inTransaction>>
        /\ UNCHANGED resolverVars
        /\ lastCall' = Query("getAll", options, r.error, r.result)

\* database.mediaDiff(medias, provider)
MediaDiff(medias, provider) ==
    LET r == mediaDiff(Tables, medias, provider)
    IN  /\ UNCHANGED <<Media, Ranks, Deleted, committed, inTransaction>>
        /\ UNCHANGED resolverVars
        /\ lastCall' = Query("mediaDiff", [medias |-> medias, provider |-> provider], r.error, r.result)

\* database.close() and new Database(path) on the same file: the open transaction
\* is rolled back, the tables are those of the file
Reopen ==
    /\ SetTables(committed)
    /\ UNCHANGED committed
    /\ inTransaction' = FALSE
    /\ UNCHANGED resolverVars
    /\ lastCall' = Call("open", "none", <<>>, <<>>)

\* the lists a caller gives
Batches == SeqsUpTo(Entries, MaxList)
KeyLists == SeqsUpTo(Keys, MaxList)
Requests == SeqsUpTo(DiffKeys, MaxList)
Scopes == {Undefined} \cup {Str(p) : p \in Providers}

\* The writing calls, in any order
Next ==
    \/ \E entry \in Entries : Insert(entry)
    \/ \E mediaList \in Batches : InsertMany(mediaList)
    \/ \E media \in Keys : Delete(media)
    \/ \E mediaList \in KeyLists : DeleteMany(mediaList)
    \/ Reopen

Spec == Init /\ [][Next]_vars

-----------------------------------------------------------------------------
(* The reading calls, each on any store that the writing calls can leave *)

\* a row of Media as insert writes it
MediaRow(key, rankId) ==
    mediaAndRankIdSchema_encode(
        Entry(key.provider, key.providerTitle, "TV", nullableRankIdToUndefined_decode(rankId),
              Undefined, Undefined, 0))

\* a row of Ranks as insert writes it
RankRow(rankId, score) ==
    rankSchema_encode(
        Entry("Hulu", TitleA, "TV", rankId, nullableNumberToUndefined_decode(score),
              Str("Gurren Lagann"), 1))

StoredScores == {NULL, Num(79), Num(85)}

\* sets of at most MaxRows rows of Media over the keys, no key twice
MediaTables(keys, rankIds) ==
    {M \in SUBSET {MediaRow(k, id) : k \in keys, id \in rankIds} :
        /\ Cardinality(M) <= MaxRows
        /\ Cardinality(KeysOf(M)) = Cardinality(M)}

\* a row for every rankId, with any score
RanksTables ==
    {{RankRow(id, score[id]) : id \in RankIds} : score \in [RankIds -> StoredScores]}

InitQuery ==
    /\ Media \in MediaTables(Keys, RankIds \cup {NULL})
    /\ Ranks \in RanksTables
    /\ Deleted \in {D \in SUBSET {MediaRow(k, NULL) : k \in Keys} :
                       Cardinality(D) + Cardinality(Media) <= MaxRows}
    /\ committed = Tables
    /\ inTransaction = FALSE
    /\ lastCall = Call("open", "none", <<>>, <<>>)
    /\ NoResolver

NextQuery == lastCall.op = "open" /\ \E options \in Options : GetAll(options)

SpecQuery == InitQuery /\ [][NextQuery]_vars

InitDiff ==
    /\ Media \in MediaTables(DiffKeys, {NULL})
    /\ Ranks = {}
    /\ Deleted = {}
    /\ committed = Tables
    /\ inTransaction = FALSE
    /\ lastCall = Call("open", "none", <<>>, <<>>)
    /\ NoResolver

NextDiff ==
    /\ lastCall.op = "open"
    /\ \E medias \in Requests, provider \in Scopes : MediaDiff(medias, provider)

SpecDiff == InitDiff /\ [][NextDiff]_vars

-----------------------------------------------------------------------------
(* What the claims speak of *)

LiveKeys == KeysOf(Media)
ArchivedKeys == KeysOf(Deleted)
LiveAndArchived == LiveKeys \cap ArchivedKeys

\* the keys of a list of entries or keys
ListKeys(list) == {KeyOf(list[i]) : i \in 1..Len(list)}

\* the live keys of a scope: of one provider, or all without a scope
ScopedKeys(provider) ==
    KeysOf({m \in Media : provider = Undefined \/ m.provider = provider.str})

At(provider, title) == [provider |-> provider, providerTitle |-> title]

-----------------------------------------------------------------------------
(* C1, C2: mediaDiff *)

DiffPartitions(medias, provider, result) ==
    LET inBoth == ListKeys(result.inBoth)
        notInStore == ListKeys(result.notInDatabase)
        onlyInStore == ListKeys(result.onlyInDatabase)
    IN  /\ inBoth \cap notInStore = {}
        /\ inBoth \cap onlyInStore = {}
        /\ notInStore \cap onlyInStore = {}
        /\ inBoth \cup notInStore = ListKeys(medias)
        /\ inBoth \cup onlyInStore = ScopedKeys(provider)

\* C1: for every fetched list, store and scope, mediaDiff returns three pairwise
\* disjoint sets, inBoth with notInStore is the fetched key set and inBoth with
\* onlyInStore is the set of live keys of the scope, each key the exact pair.
C1_DiffPartitions ==
    lastCall.op = "mediaDiff" =>
        /\ lastCall.error = "none"
        /\ DiffPartitions(lastCall.args.medias, lastCall.args.provider, lastCall.result)

\* the scenario of C2: the store holds A@Hulu and B@Netflix, the fetch is
\* A@Hulu, C@Netflix, the scope is Netflix
ScenarioStore == LiveKeys = {At("Hulu", TitleA), At("Netflix", TitleB)}
ScenarioFetch == <<At("Hulu", TitleA), At("Netflix", TitleC)>>
ScenarioScope == Str("Netflix")

\* the call of the scenario was made on the store of the scenario
Scenario ==
    /\ lastCall.op = "mediaDiff"
    /\ ScenarioStore
    /\ lastCall.args = [medias |-> ScenarioFetch, provider |-> ScenarioScope]

\* the fetched keys of a scoped call that are of another provider than the scope
OutOfScope ==
    {k \in Range(lastCall.args.medias) : k.provider # lastCall.args.provider.str}

\* C2 as claimed: the scenario yields notInStore = [C@Netflix], and with a scope a
\* fetched key of another source that is live is not reported in notInStore.
C2_ScopedDiffAsClaimed ==
    /\ Scenario =>
           lastCall.result = [inBoth |-> <<>>,
                              notInDatabase |-> <<At("Netflix", TitleC)>>,
                              onlyInDatabase |-> <<At("Netflix", TitleB)>>]
    /\ (lastCall.op = "mediaDiff" /\ lastCall.args.provider # Undefined) =>
           \A k \in OutOfScope \cap LiveKeys :
               k \notin Range(lastCall.result.notInDatabase)

\* C2 amended: the scenario yields notInStore = [A@Hulu, C@Netflix], inBoth = [],
\* onlyInStore = [B@Netflix]; with a scope every fetched key of another source is
\* reported in notInStore and not in inBoth, live in the store or not.
C2_ScopedDiff ==
    /\ Scenario =>
           /\ lastCall.error = "none"
           /\ lastCall.result =
                  [inBoth |-> <<>>,
                   notInDatabase |-> <<At("Hulu", TitleA), At("Netflix", TitleC)>>,
                   onlyInDatabase |-> <<At("Netflix", TitleB)>>]
    /\ (/\ lastCall.op = "mediaDiff"
        /\ lastCall.args.provider # Undefined
        /\ lastCall.error = "none") =>
           \A k \in OutOfScope :
               /\ k \in Range(lastCall.result.notInDatabase)
               /\ k \notin Range(lastCall.result.inBoth)

\* the scenario of C2 has run
C2_Witness ==
    /\ Scenario
    /\ lastCall.error = "none"
    /\ OutOfScope \cap LiveKeys # {}

-----------------------------------------------------------------------------
(* C3 .. C7: the writing calls *)

\* C3: insertMany is atomic: if an insert of the batch fails, the store equals its
\* state before the call; if none fails, all entries of the batch are stored.
C3_InsertManyAtomic ==
    [][\A mediaList \in Batches :
           InsertMany(mediaList) =>
               IF lastCall'.error # "none"
               THEN Tables' = Tables
               ELSE \A i \in 1..Len(mediaList) :
                        mediaAndRankIdSchema_encode(mediaList[i]) \in Media']_vars

UniqueLiveKeys == Cardinality(LiveKeys) = Cardinality(Media)

\* C4: in every reachable state at most one live entry exists for a key; insert of
\* an entry whose key is already live fails with an error and the live entry of
\* that key keeps all its fields.
C4_UniqueKey ==
    /\ []UniqueLiveKeys
    /\ [][\A entry \in Entries :
              (Insert(entry) /\ KeyOf(entry) \in LiveKeys) =>
                  /\ lastCall'.error # "none"
                  /\ Media' = Media]_vars

\* an insert was refused for its key, and the entry of that key is live
C4_Witness ==
    /\ lastCall.op = "insert"
    /\ lastCall.error = "SQLITE_CONSTRAINT_PRIMARYKEY"
    /\ Media # {}

\* the keys that getAll returns under some options
QueriedKeys(db) ==
    UNION {ListKeys(getAll(db, options).result) : options \in Options}

\* C5: delete of a live key copies its entry unchanged into Deleted and removes it
\* from Media, so that getAll no longer returns it; delete of a key that is not
\* live raises an error and leaves Media, Deleted and Ranks unchanged.
C5_Archive ==
    [][\A media \in Keys :
           Delete(media) =>
               LET live == {m \in Media : KeyOf(m) = media}
               IN  IF live # {}
                   THEN /\ lastCall'.error = "none"
                        /\ Deleted' = Deleted \cup live
                        /\ Media' = Media \ live
                        /\ Ranks' = Ranks
                        /\ media \notin QueriedKeys(Tables')
                   ELSE /\ lastCall'.error # "none"
                        /\ Tables' = Tables]_vars

\* a delete has moved an entry: it is archived, not live, and others are live
C5_Witness ==
    /\ lastCall.op = "delete"
    /\ lastCall.error = "none"
    /\ ArchivedKeys \ LiveKeys # {}
    /\ Media # {}

\* C6 as claimed: after any sequence of insert, insertMany, delete and deleteMany
\* no key is in the live set and in the Archive at the same time.
C6_NeverLiveAndArchived == LiveAndArchived = {}

\* C6 amended: a key that delete or deleteMany archives is no longer live, and no
\* such call makes a key live and archived at once; a key gets to be both only by
\* an insert or insertMany of a key that is already in the Archive.
C6_ArchiveMoves ==
    [][/\ \A media \in Keys :
              (Delete(media) /\ lastCall'.error = "none") =>
                  media \in ArchivedKeys' \ LiveKeys'
       /\ lastCall'.op \in {"delete", "deleteMany"} =>
              /\ LiveAndArchived' \subseteq LiveAndArchived
              /\ (LiveKeys \ LiveKeys') \subseteq ArchivedKeys'
       /\ lastCall'.op \in {"insert", "insertMany"} =>
              (LiveAndArchived' \ LiveAndArchived) \subseteq ArchivedKeys]_vars

\* an insert has made a key live that is in the Archive
C6_Witness ==
    /\ lastCall.op \in {"insert", "insertMany"}
    /\ lastCall.error = "none"
    /\ LiveAndArchived # {}

\* the keys of the list that are not live when deleteMany reaches them: not live
\* before the call, or earlier in the list
RECURSIVE NotLiveWhenReached(_, _)
NotLiveWhenReached(mediaList, live) ==
    IF mediaList = <<>> THEN <<>>
    ELSE IF Head(mediaList) \in live
    THEN NotLiveWhenReached(Tail(mediaList), live \ {Head(mediaList)})
    ELSE <<Head(mediaList)>> \o NotLiveWhenReached(Tail(mediaList), live)

\* C7: deleteMany processes every key of the list: each key that is live when
\* reached is archived and that is committed even if other keys fail; an error is
\* raised iff at least one key was not live, and it lists exactly those keys.
C7_DeleteManyPartial ==
    [][\A mediaList \in KeyLists :
           DeleteMany(mediaList) =>
               /\ lastCall'.errors = NotLiveWhenReached(mediaList, LiveKeys)
               /\ (lastCall'.error # "none") <=>
                      (NotLiveWhenReached(mediaList, LiveKeys) # <<>>)
               /\ LiveKeys' = LiveKeys \ Range(mediaList)
               /\ {m \in Media : KeyOf(m) \in Range(mediaList)} \subseteq Deleted'
               /\ committed' = Tables']_vars

-----------------------------------------------------------------------------
(* C8 .. C10: getAll *)

\* in the order of the lists: a before b
Before(a, b) ==
    IF a.score # Undefined /\ b.score # Undefined /\ a.score.num # b.score.num
    THEN a.score.num > b.score.num
    ELSE IF (a.score = Undefined) # (b.score = Undefined) THEN b.score = Undefined
    ELSE IF a.providerTitle # b.providerTitle THEN StrLess(a.providerTitle, b.providerTitle)
    ELSE StrLess(ProviderChars(a.provider), ProviderChars(b.provider))

\* C8: for every store and every filter the list of getAll is ordered by score
\* descending, entries without a score after all scored ones, ties broken by
\* providerTitle ascending and then provider ascending.
C8_Ordered ==
    lastCall.op = "getAll" =>
        \A i, j \in 1..Len(lastCall.result) :
            i < j => Before(lastCall.result[i], lastCall.result[j])

\* a list of two entries of the same title and the same score, in the order of
\* their providers
C8_Witness ==
    /\ lastCall.op = "getAll"
    /\ Len(lastCall.result) = 2
    /\ lastCall.result[1].score # Undefined
    /\ lastCall.result[1].score = lastCall.result[2].score
    /\ lastCall.result[1].providerTitle = lastCall.result[2].providerTitle

\* the entry that a live row stands for: its fields and those of its Rank
LiveEntry(m) ==
    IF m.rankId = NULL
    THEN [providerTitle |-> m.providerTitle, type |-> m.type,
          providerURL |-> stringToHttpURL_decode(m.providerURL), provider |-> m.provider,
          rankId |-> Undefined, rankerTitle |-> Undefined, rankerURL |-> Undefined,
          score |-> Undefined, ranker |-> Undefined, lastUpdated |-> Undefined]
    ELSE LET r == CHOOSE r \in Ranks : r.rankId = m.rankId
         IN  [providerTitle |-> m.providerTitle, type |-> m.type,
              providerURL |-> stringToHttpURL_decode(m.providerURL),
              provider |-> m.provider,
              rankId |-> r.rankId, rankerTitle |-> r.rankerTitle,
              rankerURL |-> stringToHttpURL_decode(r.rankerURL),
              score |-> nullableNumberToUndefined_decode(r.score),
              ranker |-> r.ranker,
              lastUpdated |-> isoDatetimeToDate_decode(r.lastUpdated)]

OnProvider(m, provider) == provider = Undefined \/ m.provider = provider.str

\* the list holds exactly these entries, each once
HoldsExactly(list, entries) ==
    /\ Range(list) = entries
    /\ Len(list) = Cardinality(entries)

\* the live entries that the options ask for, by provider and by minimum score
Asked(options) ==
    {LiveEntry(m) : m \in
        {m \in Media :
            /\ OnProvider(m, options.provider)
            /\ options.rank # Undefined =>
                   /\ LiveEntry(m).score # Undefined
                   /\ LiveEntry(m).score.num >= options.rank.minimumScore}}

\* C9: getAll with a provider and/or a minimum score returns exactly the live
\* entries, each once, of that provider and with a score that is present and at
\* least the minimum; without a filter every live entry once, with its Rank fields.
C9_Filters ==
    (lastCall.op = "getAll" /\ lastCall.args.rank \notin {Bool(TRUE), Bool(FALSE)}) =>
        /\ lastCall.error = "none"
        /\ HoldsExactly(lastCall.result, Asked(lastCall.args))

\* a filter has kept one of two live entries and left out the other
C9_Witness ==
    /\ lastCall.op = "getAll"
    /\ lastCall.args = [provider |-> Str("Hulu"), rank |-> MinimumScore(79)]
    /\ Len(lastCall.result) = 1
    /\ lastCall.result[1].score = Num(79)
    /\ Cardinality(Media) = 2
    /\ Deleted = {}

\* C10: getAll with rank true returns exactly the live entries that have a Rank,
\* with rank false exactly those that have none, so that each live entry of the
\* provider is in exactly one of the two lists.
C10_RankPresence ==
    (lastCall.op = "getAll" /\ lastCall.args.rank \in {Bool(TRUE), Bool(FALSE)}) =>
        /\ lastCall.error = "none"
        /\ HoldsExactly(lastCall.result,
               {LiveEntry(m) : m \in
                   {m \in Media :
                       /\ OnProvider(m, lastCall.args.provider)
                       /\ (m.rankId # NULL) = lastCall.args.rank.bool}})

-----------------------------------------------------------------------------
(* C11 .. C15: what insert stores and what delete leaves *)

\* getAll(): every live entry
AllEntries(db) == getAll(db, [provider |-> Undefined, rank |-> Undefined]).result

\* the records that getAll() returns for the key of an entry
ReadBack(db, entry) ==
    {AllEntries(db)[i] : i \in {i \in 1..Len(AllEntries(db)) :
                                    KeyOf(AllEntries(db)[i]) = KeyOf(entry)}}

\* the Rank rows stored under the rankId of an entry
StoredRank(ranks, entry) == {r \in ranks : r.rankId = entry.rankId}

OnStoredRank(entry, r) ==
    [entry EXCEPT
        !.rankerTitle = r.rankerTitle,
        !.rankerURL = stringToHttpURL_decode(r.rankerURL),
        !.ranker = r.ranker,
        !.score = IF rankSchema_canEncode(entry) THEN entry.score
                  ELSE nullableNumberToUndefined_decode(r.score),
        !.lastUpdated = IF rankSchema_canEncode(entry) THEN entry.lastUpdated
                        ELSE isoDatetimeToDate_decode(r.lastUpdated)]

CarriesRank(entry) ==
    rankSchema_canEncode(entry) /\ ScoreCheck(rankSchema_encode(entry).score)

\* C12: insert of an entry that carries a Rank whose rankId already has a row never
\* makes a second row of that rankId: the row takes the score and lastUpdated of
\* the entry and keeps its other fields, the other rows are not touched, and every
\* live entry of that rankId then reads the new score.
C12_Upsert ==
    [][\A entry \in Entries :
           (Insert(entry) /\ CarriesRank(entry) /\ StoredRank(Ranks, entry) # {}) =>
               /\ Cardinality(Ranks') = Cardinality(Ranks)
               /\ \A r \in Ranks :
                      IF r.rankId = entry.rankId
                      THEN [r EXCEPT !.score = rankSchema_encode(entry).score,
                                     !.lastUpdated = rankSchema_encode(entry).lastUpdated]
                               \in Ranks'
                      ELSE r \in Ranks'
               /\ \A i \in 1..Len(AllEntries(Tables')) :
                      AllEntries(Tables')[i].rankId = entry.rankId =>
                          AllEntries(Tables')[i].score = entry.score]_vars

\* two live entries on one Rank row, which has the score of the second insert and
\* the title of the first
C12_Witness ==
    /\ lastCall.op = "insert"
    /\ lastCall.error = "none"
    /\ Ranks = {[rankSchema_encode(rank85OnHulu) EXCEPT
                    !.score = rankSchema_encode(rank79OnNetflix).score,
                    !.lastUpdated = rankSchema_encode(rank79OnNetflix).lastUpdated]}
    /\ {AllEntries(Tables)[i].score : i \in 1..Len(AllEntries(Tables))} = {Num(79)}
    /\ Cardinality(Media) = 2

\* the rankId of every row of Media, if there is one, is the key of a row of Ranks
RanksReferenced(db) ==
    \A m \in db.Media : m.rankId # NULL => \E r \in db.Ranks : r.rankId = m.rankId

\* C13: in every reachable state the rankId of each live entry, if present, is the
\* key of a Rank row; insert of an entry with a rankId that has no Rank row and
\* without the Rank fields to make one is rejected and stores nothing.
C13_ReferentialIntegrity ==
    /\ [](RanksReferenced(Tables) /\ RanksReferenced(committed))
    /\ [][\A entry \in Entries :
              (/\ Insert(entry)
               /\ entry.rankId # Undefined
               /\ StoredRank(Ranks, entry) = {}
               /\ ~rankSchema_canEncode(entry)) =>
                  /\ lastCall'.error # "none"
                  /\ Tables' = Tables
                  /\ committed' = committed]_vars

\* an insert was refused for its rankId while other entries and Ranks are stored
C13_Witness ==
    /\ lastCall.op = "insert"
    /\ lastCall.error = "SQLITE_CONSTRAINT_FOREIGNKEY"
    /\ Ranks # {}
    /\ StoredRank(Ranks, pointingToRank) = {}
    /\ \E m \in Media : m.rankId # NULL

\* every score of a row of Ranks is absent or in 0..100
ScoresInRange(db) ==
    \A r \in db.Ranks : r.score = NULL \/ (r.score.num >= 0 /\ r.score.num <= 100)

OutOfRange(entry) ==
    entry.score # Undefined /\ (entry.score.num < 0 \/ entry.score.num > 100)

C15_SharedRankKept ==
    [][/\ lastCall'.op \in {"delete", "deleteMany"} => Ranks' = Ranks
       /\ \A media \in Keys :
              Delete(media) =>
                  /\ {m \in Media : KeyOf(m) # media} = {m \in Media' : KeyOf(m) # media}
                  /\ \A m \in Media :
                         KeyOf(m) # media =>
                             ReadBack(Tables', m) = ReadBack(Tables, m)]_vars

\* one of two entries on one Rank was archived, the other is live with the Rank
C15_Witness ==
    /\ lastCall.op = "delete"
    /\ lastCall.error = "none"
    /\ \E m \in Media, d \in Deleted \ Media :
           /\ m.rankId # NULL
           /\ m.rankId = d.rankId
           /\ m.provider # d.provider
           /\ \E r \in Ranks : r.rankId = m.rankId

-----------------------------------------------------------------------------
(* The rank resolver: Anilist.getRanking *)

\* the titles "ABCDEFG", "ABCDEFX" (one character away from it), "ABCD:EFG",
\* "(Sub) ABCDEFG", "ABCDEFG (Dub)", "abcd efg" and "OTHER"
TitleQ == <<65, 66, 67, 68, 69, 70, 71>>
TitleNearQ == <<65, 66, 67, 68, 69, 70, 88>>
TitleQWithColon == <<65, 66, 67, 68, Colon, 69, 70, 71>>
TitleQWithPrefix == <<40, 83, 117, 98, 41, 32>> \o TitleQ
TitleQWithSuffix == TitleQ \o <<32, 40, 68, 117, 98, 41>>
TitleQLower == <<97, 98, 99, 100, 32, 101, 102, 103>>
TitleOther == <<79, 84, 72, 69, 82>>

Min(a, b) == IF a <= b THEN a ELSE b
Max(a, b) == IF a >= b THEN a ELSE b

\* one row of the edit distance table: the distances of a prefix of the first
\* string that ends in c to every prefix of b, from the row prev of the prefix
\* before it; acc holds the cells computed so far
RECURSIVE levenshteinRow(_, _, _, _)
levenshteinRow(prev, c, b, acc) ==
    IF Len(acc) = Len(b) + 1 THEN acc
    ELSE LET j == Len(acc)
             cell == Min(Min(prev[j + 1] + 1, acc[j] + 1),
                         prev[j] + (IF c = b[j] THEN 0 ELSE 1))
         IN  levenshteinRow(prev, c, b, Append(acc, cell))

\* the rows of the table, from the row of the empty prefix
RECURSIVE levenshteinRows(_, _, _, _)
levenshteinRows(a, b, i, prev) ==
    IF i > Len(a) THEN prev
    ELSE LET row == levenshteinRow(prev, a[i], b, <<i>>)
         IN  IF Len(row) = Len(prev) THEN levenshteinRows(a, b, i + 1, row) ELSE <<>>

\* the number of insertions, deletions and substitutions that turn a into b
levenshteinDistance(a, b) ==
    levenshteinRows(a, b, 1, [j \in 1..(Len(b) + 1) |-> j - 1])[Len(b) + 1]

\* the similarity threshold, in hundredths
THRESHOLD == 85

\* a comparison of the titles as they are written
asWritten(title) == title

\* the comparison reads a title without its white space and in upper case
RECURSIVE normalized(_)
normalized(title) ==
    IF title = <<>> THEN <<>>
    ELSE IF Head(title) = 32 THEN normalized(Tail(title))
    ELSE IF Head(title) \in 97..122 THEN <<Head(title) - 32>> \o normalized(Tail(title))
    ELSE <<Head(title)>> \o normalized(Tail(title))

\* comp.levenshtein.similarity(title1, title2) >= THRESHOLD: the similarity is
\* the share of the longer title that the edit distance leaves alone
titleSimilarity(title1, title2) ==
    LET a == normalized(title1)
        b == normalized(title2)
        longest == Max(Len(a), Len(b))
    IN  IF (longest - levenshteinDistance(a, b)) * 100 >= THRESHOLD * longest
        THEN "similar"
        ELSE "not similar"

\* title.replace(":", ""): the first colon is removed
RECURSIVE removeFirst(_, _)
removeFirst(title, c) ==
    IF title = <<>> THEN <<>>
    ELSE IF Head(title) = c THEN Tail(title)
    ELSE <<Head(title)>> \o removeFirst(Tail(title), c)

startsWith(title, prefix) ==
    Len(title) >= Len(prefix) /\ SubSeq(title, 1, Len(prefix)) = prefix

endsWith(title, suffix) ==
    /\ Len(title) >= Len(suffix)
    /\ SubSeq(title, Len(title) - Len(suffix) + 1, Len(title)) = suffix

\* "(Sub) " and "(Dub) "
huluPrefixes == {<<40, 83, 117, 98, 41, 32>>, <<40, 68, 117, 98, 41, 32>>}

\* " (Spanish)", " (Eng)", " (Eng Dub)", " (English Dub)", " (Dub)", " (en Español)"
huluSuffixes ==
    {<<32, 40, 83, 112, 97, 110, 105, 115, 104, 41>>,
     <<32, 40, 69, 110, 103, 41>>,
     <<32, 40, 69, 110, 103, 32, 68, 117, 98, 41>>,
     <<32, 40, 69, 110, 103, 108, 105, 115, 104, 32, 68, 117, 98, 41>>,
     <<32, 40, 68, 117, 98, 41>>,
     <<32, 40, 101, 110, 32, 69, 115, 112, 97, 241, 111, 108, 41>>}

\* title.replace(/^\((?:Sub|Dub)\) /, "")
stripPrefix(title) ==
    IF \E p \in huluPrefixes : startsWith(title, p)
    THEN SubSeq(title, 7, Len(title))
    ELSE title

\* title.replace(/ \((?:Spanish|Eng|...)\)$/, ""): no suffix ends with another
\* one that begins with " (", so at most one of them matches at the end
stripSuffix(title) ==
    IF \E s \in huluSuffixes : endsWith(title, s)
    THEN LET s == CHOOSE s \in huluSuffixes : endsWith(title, s)
         IN  SubSeq(title, 1, Len(title) - Len(s))
    ELSE title

\* #cleanTitle(title, provider)
cleanTitle(title, provider) ==
    LET noColon == removeFirst(title, Colon)
    IN  IF provider = "Hulu" THEN stripSuffix(stripPrefix(noColon)) ELSE noColon

\* the page size of a search
DEFAULT_RESULTS_PER_SEARCH == 3

anilistMediaFormat ==
    {"TV", "TV_SHORT", "MOVIE", "SPECIAL", "OVA", "ONA", "MUSIC", "MANGA", "ONE_SHOT", "NOVEL"}

acceptedMediaFormats(type) ==
    CASE type = "TV" -> {"TV", "TV_SHORT", "SPECIAL", "OVA", "ONA"}
      [] type = "MOVIE" -> {"MOVIE", "SPECIAL", "OVA", "ONA"}
      [] type = "MANGA" -> {"MANGA", "ONE_SHOT"}

\* `${this.name}:${result.id.toString()}`
rankIdOf(id) ==
    CASE id = 1 -> Str("Anilist:1")
      [] id = 2 -> Str("Anilist:2")
      [] id = 3 -> Str("Anilist:3")
      [] OTHER -> Str("Anilist:4")

\* a ?? b
nullish(a, b) == IF a = NULL \/ a = Undefined THEN b ELSE a

\* [english ?? undefined, romaji].filter((a) => a !== undefined)
allTitlesOf(title) ==
    IF nullish(title.english, Undefined) = Undefined
    THEN <<title.romaji.str>>
    ELSE <<title.english.str, title.romaji.str>>

\* the transform of #anilistResp: one [Rank, Metadata] pair of one result
anilistResp_transform(result) ==
    [rank |-> [score |-> nullish(result.averageScore, nullish(result.meanScore, Undefined)),
               rankerTitle |-> nullish(result.title.english, result.title.romaji),
               ranker |-> "Anilist",
               rankId |-> rankIdOf(result.id)],
     metadata |-> [format |-> nullish(result.format, Undefined),
                   allTitles |-> allTitlesOf(result.title),
                   titleSynonyms |-> result.synonyms]]

\* #anilistResp.parse(await request.json()) of a well-formed body
anilistResp_parse(media) == [i \in 1..Len(media) |-> anilistResp_transform(media[i])]

\* the filter that lets every candidate through
filterNothing(results, type) == results

\* results.filter(...): the format is known and is accepted for the type
formatAccepted(pair, type) ==
    /\ pair.metadata.format # Undefined
    /\ pair.metadata.format.str \in acceptedMediaFormats(type)

RECURSIVE filterFormat(_, _)
filterFormat(results, type) ==
    IF results = <<>> THEN <<>>
    ELSE IF formatAccepted(Head(results), type)
    THEN <<Head(results)>> \o filterFormat(Tail(results), type)
    ELSE filterFormat(Tail(results), type)

\* the list without the reordering of print media
notSorted(results, sorted) == results

\* the comparator given to toSorted
compareFormat(a, b) ==
    IF a.metadata.format = b.metadata.format THEN 0
    ELSE IF a.metadata.format = Str("MANGA") THEN -1
    ELSE IF b.metadata.format = Str("MANGA") THEN 1
    ELSE 0

\* x is put behind every element of the sorted list that it does not precede
RECURSIVE insertSorted(_, _)
insertSorted(sorted, x) ==
    IF sorted = <<>> THEN <<x>>
    ELSE IF compareFormat(x, Head(sorted)) < 0 THEN <<x>> \o sorted
    ELSE <<Head(sorted)>> \o insertSorted(Tail(sorted), x)

\* results.toSorted(comparator): a stable sort
RECURSIVE toSorted(_, _)
toSorted(results, sorted) ==
    IF results = <<>> THEN sorted
    ELSE toSorted(Tail(results), insertSorted(sorted, Head(results)))

\* possibleTitles.some((t) => titleSimilarity(t, cleanedTitle) === "similar")
providerTitleIsIn(possibleTitles, cleanedTitle) ==
    \E i \in 1..Len(possibleTitles) :
        titleSimilarity(possibleTitles[i], cleanedTitle) = "similar"

\* find over official titles and synonyms at once
findByAnyTitle(results, cleanedTitle) ==
    LET found == {i \in 1..Len(results) :
                     \/ providerTitleIsIn(results[i].metadata.allTitles, cleanedTitle)
                     \/ providerTitleIsIn(results[i].metadata.titleSynonyms, cleanedTitle)}
    IN  IF found = {} THEN 0 ELSE CHOOSE i \in found : \A j \in found : i <= j

\* results.find(...) over the official titles: the index of the first, or 0
findByAllTitles(results, cleanedTitle) ==
    LET found == {i \in 1..Len(results) :
                     providerTitleIsIn(results[i].metadata.allTitles, cleanedTitle)}
    IN  IF found = {} THEN 0 ELSE CHOOSE i \in found : \A j \in found : i <= j

\* results.find(...) over the synonyms: the index of the first, or 0
findBySynonyms(results, cleanedTitle) ==
    LET found == {i \in 1..Len(results) :
                     providerTitleIsIn(results[i].metadata.titleSynonyms, cleanedTitle)}
    IN  IF found = {} THEN 0 ELSE CHOOSE i \in found : \A j \in found : i <= j

\* the candidates that getRanking searches, in the order it searches them
candidates(media, parsed) ==
    LET filtered == filterFormat(parsed, media.type)
    IN  IF media.type = "MANGA" THEN toSorted(filtered, <<>>) ELSE filtered

\* results.find(official) ?? results.find(synonyms), then bestMatch[0]
bestMatch(results, cleanedTitle) ==
    LET official == findByAllTitles(results, cleanedTitle)
        synonym == findBySynonyms(results, cleanedTitle)
    IN  IF official # 0 THEN results[official].rank
        ELSE IF synonym # 0 THEN results[synonym].rank
        ELSE Undefined

\* getRanking(media), given the parsed body of the response
getRanking(media, parsed) ==
    bestMatch(candidates(media, parsed), cleanTitle(media.providerTitle, media.provider))

-----------------------------------------------------------------------------
(* getRanking on any response of the service *)

\* results in one response of the service
MaxResults == 2

\* the media that are resolved
ProviderTitles == {TitleQ, TitleQWithColon, TitleQWithPrefix, TitleQWithSuffix}

ResolvedMedia ==
    {[provider |-> p, providerTitle |-> t, type |-> type] :
        p \in Providers, t \in ProviderTitles, type \in mediaType}

\* the titles of a result: an English title near the searched one, no English
\* title and another romaji title, no English title and the searched title in
\* lower case
ResultTitles ==
    {[english |-> Str(TitleNearQ), romaji |-> Str(TitleOther)],
     [english |-> NULL, romaji |-> Str(TitleOther)],
     [english |-> NULL, romaji |-> Str(TitleQLower)]}

ResultSynonyms == {<<>>, <<TitleOther, TitleNearQ>>}

\* the formats of a result: null, accepted ones of every type, and others
ResultFormats ==
    {NULL, Str("TV"), Str("OVA"), Str("MOVIE"), Str("MUSIC"), Str("MANGA"), Str("ONE_SHOT"),
     Str("NOVEL")}

\* the result with identifier id: the second one has no average score
Result(id, title, synonyms, format) ==
    [id |-> id,
     averageScore |-> IF id = 2 THEN NULL ELSE Num(80 + id),
     meanScore |-> Num(70),
     title |-> title,
     synonyms |-> synonyms,
     format |-> format]

ResultShapes ==
    {[title |-> t, synonyms |-> s, format |-> f] :
        t \in ResultTitles, s \in ResultSynonyms, f \in ResultFormats}

\* data.Page.media of a response: at most a page of results, identifiers distinct
PagesOf(n) ==
    {[i \in 1..n |-> Result(i, shape[i].title, shape[i].synonyms, shape[i].format)] :
        shape \in [1..n -> ResultShapes]}

Pages == UNION {PagesOf(n) : n \in 0..Min(MaxResults, DEFAULT_RESULTS_PER_SEARCH)}

\* the store of a run that has written nothing
NoStore ==
    /\ Media = {}
    /\ Ranks = {}
    /\ Deleted = {}
    /\ committed = EmptyTables
    /\ inTransaction = FALSE
    /\ lastCall = Call("open", "none", <<>>, <<>>)

\* ranker.getRanking(media), the service answering the first request with a
\* success
Resolve(media) ==
    /\ UNCHANGED <<Media, Ranks, Deleted, committed, inTransaction>>
    /\ UNCHANGED resolverVars
    /\ lastCall' = Query("getRanking", [media |-> media, page |-> service], "none",
                         getRanking(media, anilistResp_parse(service)))

InitRanking ==
    /\ NoStore
    /\ service \in Pages
    /\ now = 0
    /\ throttle = newThrottle
    /\ fetches = <<>>
    /\ calls = <<>>
    /\ run = NoRun

NextRanking ==
    /\ lastCall.op = "open"
    /\ \E media \in ResolvedMedia : Resolve(media)

SpecRanking == InitRanking /\ [][NextRanking]_vars

-----------------------------------------------------------------------------
(* C16 .. C18: what getRanking returns *)

\* a call of getRanking has returned
Resolved == lastCall.op = "getRanking"

\* the parsed response of the call, its cleaned title, and the candidates left
\* to search
ParsedOfCall == anilistResp_parse(lastCall.args.page)
CleanedOfCall == cleanTitle(lastCall.args.media.providerTitle, lastCall.args.media.provider)
CandidatesOfCall == candidates(lastCall.args.media, ParsedOfCall)

\* a title of the list is similar to the cleaned title of the call
SimilarIn(names) ==
    \E i \in 1..Len(names) : titleSimilarity(names[i], CleanedOfCall) = "similar"

OfficialMatch(pair) == SimilarIn(pair.metadata.allTitles)
SynonymMatch(pair) == SimilarIn(pair.metadata.titleSynonyms)

\* the positions of the candidates with a similar official title, and with a
\* similar synonym
OfficialMatches == {i \in 1..Len(CandidatesOfCall) : OfficialMatch(CandidatesOfCall[i])}
SynonymMatches == {i \in 1..Len(CandidatesOfCall) : SynonymMatch(CandidatesOfCall[i])}

First(S) == CHOOSE i \in S : \A j \in S : i <= j

\* the place of a rank in the response of the service
PlaceOf(rank) == CHOOSE i \in 1..Len(ParsedOfCall) : ParsedOfCall[i].rank = rank

\* C16: getRanking returns the first candidate with a similar official title;
\* only when there is none, the first candidate with a similar synonym; when
\* there is neither, nothing. A returned Rank belongs to a candidate with a
\* similar official title or synonym.
C16_MatchSelection ==
    Resolved =>
        LET cands == CandidatesOfCall
            official == OfficialMatches
            synonym == SynonymMatches
        IN  /\ official # {} => lastCall.result = cands[First(official)].rank
            /\ (official = {} /\ synonym # {}) =>
                   lastCall.result = cands[First(synonym)].rank
            /\ (official = {} /\ synonym = {}) => lastCall.result = Undefined
            /\ lastCall.result # Undefined =>
                   \E i \in official \cup synonym : cands[i].rank = lastCall.result

\* the first candidate has a similar synonym only, the second a similar
\* official title, and the second is returned
C16_Witness ==
    /\ Resolved
    /\ Len(CandidatesOfCall) = 2
    /\ SynonymMatch(CandidatesOfCall[1]) /\ ~OfficialMatch(CandidatesOfCall[1])
    /\ OfficialMatch(CandidatesOfCall[2])
    /\ lastCall.result = CandidatesOfCall[2].rank

\* the result of the service that a rank was made of
ResultOf(rank) == lastCall.args.page[PlaceOf(rank)]

\* the formats that the claim lists for a kind
ListedFormats(kind) ==
    CASE kind = "TV" -> {Str("TV"), Str("TV_SHORT"), Str("SPECIAL"), Str("OVA"), Str("ONA")}
      [] kind = "MOVIE" -> {Str("MOVIE"), Str("SPECIAL"), Str("OVA"), Str("ONA")}
      [] kind = "MANGA" -> {Str("MANGA"), Str("ONE_SHOT")}

\* a result of the page that has a title or a synonym similar to the cleaned
\* title
SimilarResult(i) == OfficialMatch(ParsedOfCall[i]) \/ SynonymMatch(ParsedOfCall[i])

\* C17: the candidate that getRanking returns has a format, and the format is
\* in the list of the kind of the media.
C17_FormatFilter ==
    (Resolved /\ lastCall.result # Undefined) =>
        ResultOf(lastCall.result).format \in ListedFormats(lastCall.args.media.type)

\* the only result with a similar title has no format or a format that is not
\* listed, and nothing is returned
C17_Witness ==
    /\ Resolved
    /\ Len(lastCall.args.page) = 2
    /\ SimilarResult(1) /\ ~SimilarResult(2)
    /\ lastCall.args.page[1].format \notin ListedFormats(lastCall.args.media.type)
    /\ lastCall.args.page[2].format \in ListedFormats(lastCall.args.media.type)
    /\ lastCall.result = Undefined

\* the candidates keep the order of the service
ServiceOrder(cands) ==
    \A i, j \in 1..Len(cands) : i < j => PlaceOf(cands[i].rank) < PlaceOf(cands[j].rank)

\* the candidates of one format keep the order of the service
ServiceOrderWithinFormat(cands) ==
    \A i, j \in 1..Len(cands) :
        (i < j /\ cands[i].metadata.format = cands[j].metadata.format)
            => PlaceOf(cands[i].rank) < PlaceOf(cands[j].rank)

\* a result of the format has an official title similar to the cleaned title
OfficialMatchOfFormat(format) ==
    \E i \in 1..Len(ParsedOfCall) :
        /\ ParsedOfCall[i].metadata.format = Str(format)
        /\ OfficialMatch(ParsedOfCall[i])

\* C18: for print media with a similar official title on a full series and on
\* a one-shot, the full series is returned, wherever the service put it;
\* candidates of one format keep the order of the service; for the other kinds
\* the order of the service is kept.
C18_FullSeriesFirst ==
    Resolved =>
        /\ (/\ lastCall.args.media.type = "MANGA"
            /\ OfficialMatchOfFormat("MANGA")
            /\ OfficialMatchOfFormat("ONE_SHOT"))
               => /\ lastCall.result # Undefined
                  /\ ResultOf(lastCall.result).format = Str("MANGA")
        /\ ServiceOrderWithinFormat(CandidatesOfCall)
        /\ lastCall.args.media.type # "MANGA" => ServiceOrder(CandidatesOfCall)

\* the service puts the one-shot before the full series, both with a similar
\* official title, and the full series is returned
C18_Witness ==
    /\ Resolved
    /\ lastCall.args.media.type = "MANGA"
    /\ Len(lastCall.args.page) = 2
    /\ lastCall.args.page[1].format = Str("ONE_SHOT") /\ OfficialMatch(ParsedOfCall[1])
    /\ lastCall.args.page[2].format = Str("MANGA") /\ OfficialMatch(ParsedOfCall[2])
    /\ lastCall.result = ParsedOfCall[2].rank

-----------------------------------------------------------------------------
(* The throttle of the resolver and the request loop of #parsedRequest *)

\* concurrent calls of getRanking on one resolver
MaxCalls == 2
\* seconds that the clock runs after the resolver is made
MaxSeconds == 4

requestInvervalMs == 2000
SEC_TO_MS == 1000

\* pThrottle({limit: 1, ...})
limit == 1

\* the clock when the resolver is made: further from zero than the interval.
\* The clock moves in steps of a second.
StartOfClock == requestInvervalMs + SEC_TO_MS
EndOfClock == StartOfClock + MaxSeconds * SEC_TO_MS

CallIds == 1..MaxCalls

\* a throttle that lets every call through at once
noDelay(window, time) == [throttle |-> window, delay |-> 0]

\* the delay that the throttle gives a call made at the time, and its window
\* after the call: a call later than an interval after the window's tick opens
\* a window at the time of the call; a call in a window with room joins it;
\* any other call opens the window an interval after the last one
windowedDelay(window, time) ==
    IF time - window.currentTick > requestInvervalMs
    THEN [throttle |-> [currentTick |-> time, activeCount |-> 1], delay |-> 0]
    ELSE IF window.activeCount < limit
    THEN [throttle |-> [window EXCEPT !.activeCount = @ + 1],
          delay |-> window.currentTick - time]
    ELSE [throttle |-> [currentTick |-> window.currentTick + requestInvervalMs,
                        activeCount |-> 1],
          delay |-> window.currentTick + requestInvervalMs - time]

\* a request of call c: the title and the type that fetch sends, whether it is
\* queued, sent or answered, when its timer is due and when fetch was called
Request(c, media, state, due, sentAt) ==
    [call |-> c,
     title |-> cleanTitle(media.providerTitle, media.provider),
     type |-> media.type,
     state |-> state,
     due |-> due,
     sentAt |-> sentAt]

\* the sleep after a response without success: when it began, and the header
\* Retry-After of the response
Sleep(time, retryAfterSec) == [since |-> time, retryAfter |-> retryAfterSec]

\* this.#throttledRequest(title, type) of call c: with no delay fetch is called
\* at once, otherwise a timer is set that will call it
ThrottledRequest(c, media) ==
    LET w == windowedDelay(throttle, now)
    IN  /\ throttle' = w.throttle
        /\ fetches' = Append(fetches,
               IF w.delay > 0
               THEN Request(c, media, "queued", now + w.delay, 0)
               ELSE Request(c, media, "sent", now, now))
        /\ calls' = [calls EXCEPT ![c] = [@ EXCEPT !.pc = "fetching", !.media = media]]

\* the media that concurrent calls resolve
ThrottledMedia ==
    {[provider |-> "Hulu", providerTitle |-> TitleQ, type |-> "TV"],
     [provider |-> "Netflix", providerTitle |-> TitleQWithColon, type |-> "MANGA"]}

\* what the service holds: nothing, or one series
ThrottledPages ==
    {<<>>,
     <<Result(1, [english |-> Str(TitleNearQ), romaji |-> Str(TitleOther)], <<>>, Str("TV"))>>}

\* the values of the header Retry-After of a response: none, or seconds
RetryAfterHeaders == {NULL, Num(1), Num(3)}

\* a sleep of the interval of the throttle, whatever the header says
sleepInterval(retryAfterSec) == requestInvervalMs

\* sleepSec * SEC_TO_MS
sleepMs(retryAfterSec) ==
    IF retryAfterSec = NULL THEN requestInvervalMs ELSE retryAfterSec.num * SEC_TO_MS

\* a timer is due: time does not pass before its callback has run
TimerDue ==
    \/ \E i \in 1..Len(fetches) : fetches[i].state = "queued" /\ fetches[i].due <= now
    \/ \E c \in CallIds : calls[c].pc = "sleeping" /\ calls[c].wake <= now

\* a timer is set
TimerSet ==
    \/ \E i \in 1..Len(fetches) : fetches[i].state = "queued"
    \/ \E c \in CallIds : calls[c].pc = "sleeping"

\* ranker.getRanking(media) is called: the title is cleaned and the request is
\* given to the throttle
GetRanking(c, media) ==
    /\ calls[c].pc = "idle"
    /\ ThrottledRequest(c, media)
    /\ UNCHANGED <<Media, Ranks, Deleted, committed, inTransaction, lastCall, service, now, run>>

\* a timer that fires whenever it is looked at
firesAtOnce(fetch, time) == TRUE

\* setTimeout(execute, delay): the callback runs when the delay has passed
timerFired(fetch, time) == fetch.due <= time

\* the timer of a delayed request fires: fetch is called
Execute(i) ==
    /\ fetches[i].state = "queued"
    /\ timerFired(fetches[i], now)
    /\ fetches' = [fetches EXCEPT ![i] = [@ EXCEPT !.state = "sent", !.sentAt = now]]
    /\ UNCHANGED <<Media, Ranks, Deleted, committed, inTransaction, lastCall, service, now,
                   throttle, calls, run>>

\* the service answers a request with a success: the body is parsed, the match
\* is chosen and getRanking returns
RespondOk(i) ==
    LET c == fetches[i].call
        rank == getRanking(calls[c].media, anilistResp_parse(service))
    IN  /\ fetches[i].state = "sent"
        /\ fetches' = [fetches EXCEPT ![i] = [@ EXCEPT !.state = "answered"]]
        /\ calls' = [calls EXCEPT ![c] = [@ EXCEPT !.pc = "returned", !.result = rank,
                                                   !.ok = Bool(TRUE)]]
        /\ lastCall' = Query("getRanking", [media |-> calls[c].media, page |-> service],
                             "none", rank)
        /\ UNCHANGED <<Media, Ranks, Deleted, committed, inTransaction, service, now, throttle, run>>

\* the service answers a request with a success and a body that is not of the
\* shape of #anilistResp: parse throws, and so does getRanking
RespondMalformed(i) ==
    LET c == fetches[i].call
    IN  /\ fetches[i].state = "sent"
        /\ fetches' = [fetches EXCEPT ![i] = [@ EXCEPT !.state = "answered"]]
        /\ calls' = [calls EXCEPT ![c] = [@ EXCEPT !.pc = "threw",
                                                   !.ok = Bool(TRUE)]]
        /\ lastCall' = Query("getRanking", [media |-> calls[c].media, page |-> <<>>],
                             "ZodError", Undefined)
        /\ UNCHANGED <<Media, Ranks, Deleted, committed, inTransaction, service, now, throttle,
                       run>>

\* the service answers a request without success, which it does until the end
\* of the clock: the call sleeps
RespondNotOk(i, retryAfterSec) ==
    LET c == fetches[i].call
    IN  /\ fetches[i].state = "sent"
        /\ now < EndOfClock
        /\ fetches' = [fetches EXCEPT ![i] = [@ EXCEPT !.state = "answered"]]
        /\ calls' = [calls EXCEPT ![c] = [@ EXCEPT !.pc = "sleeping",
                                                   !.wake = now + sleepMs(retryAfterSec),
                                                   !.ok = Bool(FALSE),
                                                   !.slept = Sleep(now, retryAfterSec)]]
        /\ UNCHANGED <<Media, Ranks, Deleted, committed, inTransaction, lastCall, service, now,
                       throttle, run>>

\* the sleep of a call ends: the loop gives the request to the throttle again
Wake(c) ==
    /\ calls[c].pc = "sleeping"
    /\ calls[c].wake <= now
    /\ ThrottledRequest(c, calls[c].media)
    /\ UNCHANGED <<Media, Ranks, Deleted, committed, inTransaction, lastCall, service, now, run>>

\* a second passes, as long as the clock runs or a timer is set
Tick ==
    /\ ~TimerDue
    /\ now < EndOfClock \/ TimerSet
    /\ now' = now + SEC_TO_MS
    /\ UNCHANGED <<Media, Ranks, Deleted, committed, inTransaction, lastCall, service,
                   throttle, fetches, calls, run>>

InitThrottle ==
    /\ NoStore
    /\ service \in ThrottledPages
    /\ now = StartOfClock
    /\ throttle = newThrottle
    /\ fetches = <<>>
    /\ calls = [c \in CallIds |-> [pc |-> "idle", media |-> Undefined, wake |-> 0,
                                   result |-> Undefined, ok |-> Undefined,
                                   slept |-> Undefined]]
    /\ run = NoRun

NextThrottle ==
    \/ \E c \in CallIds, media \in ThrottledMedia : GetRanking(c, media)
    \/ \E i \in 1..Len(fetches) : Execute(i)
    \/ \E i \in 1..Len(fetches) : RespondOk(i)
    \/ \E i \in 1..Len(fetches) : RespondMalformed(i)
    \/ \E i \in 1..Len(fetches), retryAfterSec \in RetryAfterHeaders : RespondNotOk(i, retryAfterSec)
    \/ \E c \in CallIds : Wake(c)
    \/ Tick

SpecThrottle == InitThrottle /\ [][NextThrottle]_vars

-----------------------------------------------------------------------------
(* C19, C20: the requests that reach the scoring service *)

\* the requests for which fetch has been called, and those of them without a
\* response yet
Dispatched == {i \in 1..Len(fetches) : fetches[i].state \in {"sent", "answered"}}
InFlight == {i \in 1..Len(fetches) : fetches[i].state = "sent"}

\* the calls of getRanking that have not returned
Pending == {c \in DOMAIN calls : calls[c].pc \in {"fetching", "sleeping"}}

\* the requests of a call, and the request of a call that follows a response
\* without success
RequestsOf(c) == {i \in 1..Len(fetches) : fetches[i].call = c}
Redispatched(i) == i \in Dispatched /\ \E h \in RequestsOf(fetches[i].call) : h < i

Fifo ==
    \A i, j \in 1..Len(fetches) :
        (i < j /\ j \in Dispatched) =>
            i \in Dispatched /\ fetches[i].sentAt <= fetches[j].sentAt

\* the statement of C20 as written: requests are dispatched in the order of
\* their submission and never more than one is without its response
C20_OneInFlightAsClaimed == Fifo /\ Cardinality(InFlight) <= 1

\* C20: requests are dispatched in the order of their submission; every call
\* has at most one request that is queued or without its response, so there
\* are at most as many requests in flight as calls pending.
C20_FifoOnePerCall ==
    /\ Fifo
    /\ \A c \in DOMAIN calls :
           Cardinality({i \in RequestsOf(c) : fetches[i].state # "answered"}) <= 1
    /\ Cardinality(InFlight) <= Cardinality(Pending)

\* two requests of two calls are in flight at once, the second dispatched an
\* interval or more after the first, which has no response yet
C20_Witness ==
    \E i, j \in InFlight :
        /\ i < j
        /\ fetches[i].call # fetches[j].call
        /\ fetches[j].sentAt >= fetches[i].sentAt + 2000

-----------------------------------------------------------------------------
(* C25: the fields of a live entry *)

\* the rows of the keys that are live before and after a step are the same
\* rows: type, providerURL and rankId as stored
LiveRowsKept ==
    \A m \in Media : \A n \in Media' : KeyOf(m) = KeyOf(n) => m = n

\* C25: insert, insertMany, delete and deleteMany leave the type, the
\* providerURL and the rankId of every entry that stays live as they were
\* stored at its insert.
C25_LiveEntryNotMutated == [][lastCall'.op # "open" => LiveRowsKept]_vars

\* an insert for a live key with another type and another rankId has thrown,
\* and the live entry of the key is there with its rankId
C25_Witness ==
    /\ lastCall.op = "insert"
    /\ lastCall.error = "SQLITE_CONSTRAINT_PRIMARYKEY"
    /\ \E m \in Media : KeyOf(m) = KeyOf(rank85OnHulu) /\ m.type = "MOVIE" /\ m.rankId = NULL
    /\ \E r \in Ranks : r.rankId = rank85OnHulu.rankId

-----------------------------------------------------------------------------
(* C29, C30: after a call that threw *)

\* the last call was an insert that threw
InsertThrew == lastCall.op = "insert" /\ lastCall.error # "none"

\* C29: an insert that throws leaves the three tables as they were: no row of
\* Ranks is created and none is refreshed.
C29_FailedInsertChangesNothing ==
    [][(lastCall'.op = "insert" /\ lastCall'.error # "none") => Tables' = Tables]_vars

\* C29, the part that holds: an insert that throws leaves Media and Deleted
\* as they were
C29_LiveSetKept ==
    [][(lastCall'.op = "insert" /\ lastCall'.error # "none")
           => (Media' = Media /\ Deleted' = Deleted)]_vars

\* the last call was an insertMany or a deleteMany that threw
ManyThrew == lastCall.op \in {"insertMany", "deleteMany"} /\ lastCall.error # "none"

\* C30: after an insertMany or a deleteMany that threw no transaction is open,
\* and the tables that the connection reads are the committed ones.
C30_NoOpenTransaction == ManyThrew => (~inTransaction /\ Tables = committed)

\* C30, the part that holds: a deleteMany that threw because some media were
\* not in the store has committed
C30_DeleteManyCommits ==
    (lastCall.op = "deleteMany" /\ lastCall.error = "SomeNotInDatabase")
        => (~inTransaction /\ Tables = committed)

-----------------------------------------------------------------------------
(* C28: the keys that mediaDiff reports as only in the store *)

\* deleteMany(onlyInDatabase) on the store of the call: the media it could not
\* delete
NotDeleted == deleteLoop(Tables, lastCall.result.onlyInDatabase, <<>>).errors

\* every reported key is the key of a live entry, and deleteMany of the
\* reported keys deletes every one of them
OnlyInStoreExact ==
    /\ lastCall.error = "none"
    /\ \A k \in ListKeys(lastCall.result.onlyInDatabase) : k \in LiveKeys
    /\ NotDeleted = <<>>

\* C28: every key that mediaDiff reports in onlyInDatabase is the key of a
\* live entry, titles with ':' included, and deleteMany of these keys deletes
\* every one of them and does not throw.
C28_OnlyInStoreExact == lastCall.op = "mediaDiff" => OnlyInStoreExact

\* C28, the part that holds: the same for a store without ':' in a title
C28_ExactWithoutColon ==
    (lastCall.op = "mediaDiff" /\ \A m \in Media : Colon \notin Range(m.providerTitle))
        => OnlyInStoreExact

-----------------------------------------------------------------------------
(* titleSimilarity on the titles of its tests and on short titles *)

\* length of the short titles that are compared
MaxTitleLen == 2

\* "Naruto Shippuden"
NarutoShippuden ==
    <<78, 97, 114, 117, 116, 111, 32, 83, 104, 105, 112, 112, 117, 100, 101, 110>>

\* "Naruto: Shippuden"
NarutoColonShippuden ==
    <<78, 97, 114, 117, 116, 111, 58, 32, 83, 104, 105, 112, 112, 117, 100, 101, 110>>

\* "Tsukimichi: Moonlit Fantasy"
TsukimichiColon ==
    <<84, 115, 117, 107, 105, 109, 105, 99, 104, 105, 58, 32, 77, 111, 111, 110,
      108, 105, 116, 32, 70, 97, 110, 116, 97, 115, 121>>

\* "TSUKIMICHI -Moonlit Fantasy-"
TsukimichiDashes ==
    <<84, 83, 85, 75, 73, 77, 73, 67, 72, 73, 32, 45, 77, 111, 111, 110, 108, 105,
      116, 32, 70, 97, 110, 116, 97, 115, 121, 45>>

\* "Tokyo Vice"
TokyoVice ==
    <<84, 111, 107, 121, 111, 32, 86, 105, 99, 101>>

\* "The Tokyo Project"
TheTokyoProject ==
    <<84, 104, 101, 32, 84, 111, 107, 121, 111, 32, 80, 114, 111, 106, 101, 99, 116>>

\* "RWBY"
RWBY ==
    <<82, 87, 66, 89>>

\* "RWBY: Ice Queendom"
RWBYIceQueendom ==
    <<82, 87, 66, 89, 58, 32, 73, 99, 101, 32, 81, 117, 101, 101, 110, 100, 111, 109>>

TestedTitles ==
    {NarutoShippuden, NarutoColonShippuden, TsukimichiColon, TsukimichiDashes, TokyoVice,
     TheTokyoProject, RWBY, RWBYIceQueendom}

\* the titles of at most MaxTitleLen characters out of "A", "B", "a" and " "
ShortTitles == UNION {[1..n -> {65, 66, 97, 32}] : n \in 0..MaxTitleLen}

ComparedTitles == TestedTitles \cup ShortTitles

\* titleSimilarity(title1, title2)
TitleSimilarity(title1, title2) ==
    /\ UNCHANGED <<Media, Ranks, Deleted, committed, inTransaction>>
    /\ UNCHANGED resolverVars
    /\ lastCall' = Query("titleSimilarity", <<title1, title2>>, "none",
                         titleSimilarity(title1, title2))

InitSimilarity == NoStore /\ NoResolver

NextSimilarity ==
    /\ lastCall.op = "open"
    /\ \E title1 \in ComparedTitles, title2 \in ComparedTitles : TitleSimilarity(title1, title2)

SpecSimilarity == InitSimilarity /\ [][NextSimilarity]_vars

-----------------------------------------------------------------------------
(* C26: the verdicts of titleSimilarity *)

\* the edit distance by its recurrence, for short strings
RECURSIVE EditDistance(_, _)
EditDistance(a, b) ==
    IF a = <<>> THEN Len(b)
    ELSE IF b = <<>> THEN Len(a)
    ELSE IF Head(a) = Head(b) THEN EditDistance(Tail(a), Tail(b))
    ELSE 1 + Min(Min(EditDistance(Tail(a), b), EditDistance(a, Tail(b))),
                 EditDistance(Tail(a), Tail(b)))

\* the titles of the last call as they are compared
ComparedFirst == normalized(lastCall.args[1])
ComparedSecond == normalized(lastCall.args[2])

\* the share of the longer title that the edit distance leaves alone is at
\* least 85 hundredths
AtLeastThreshold ==
    LET longest == Max(Len(ComparedFirst), Len(ComparedSecond))
    IN  (longest - EditDistance(ComparedFirst, ComparedSecond)) * 100 >= 85 * longest

\* the verdict of the last call on the two titles, in this order, is the one
VerdictOn(title1, title2, verdict) ==
    lastCall.args = <<title1, title2>> => lastCall.result = verdict

\* C26: titleSimilarity returns "similar" or "not similar" for any two
\* strings, empty ones included; the pairs of the tests have the verdicts that
\* are listed; for short titles that are not both empty the verdict is
\* "similar" exactly when the normalized edit distance similarity reaches the
\* threshold.
C26_Verdicts ==
    lastCall.op = "titleSimilarity" =>
        /\ lastCall.error = "none"
        /\ lastCall.result \in {"similar", "not similar"}
        /\ VerdictOn(NarutoShippuden, NarutoColonShippuden, "similar")
        /\ VerdictOn(TsukimichiColon, TsukimichiDashes, "similar")
        /\ VerdictOn(TokyoVice, TheTokyoProject, "not similar")
        /\ VerdictOn(RWBY, RWBYIceQueendom, "not similar")
        /\ (/\ lastCall.args[1] \in ShortTitles
            /\ lastCall.args[2] \in ShortTitles
            /\ ComparedFirst \o ComparedSecond # <<>>)
               => (lastCall.result = "similar" <=> AtLeastThreshold)

\* the two writings of Tsukimichi have been compared and are similar
C26_Witness ==
    /\ lastCall.op = "titleSimilarity"
    /\ lastCall.args = <<TsukimichiColon, TsukimichiDashes>>
    /\ lastCall.result = "similar"

\* two empty titles have been compared and the call has returned a verdict
C26_EmptyTitles ==
    /\ lastCall.op = "titleSimilarity"
    /\ lastCall.args = <<<<>>, <<>>>>
    /\ lastCall.result \in {"similar", "not similar"}

-----------------------------------------------------------------------------
\* The loop of #parsedRequest: a response without success is slept on and the
\* request is given to the throttle again.

\* what runs by itself: the timers of the throttle and of the sleeps, and time
Timers ==
    \/ \E i \in 1..Len(fetches) : Execute(i)
    \/ \E c \in CallIds : Wake(c)
    \/ Tick

\* the throttled resolver in a runtime whose timers fire and whose time passes
SpecThrottleFair == SpecThrottle /\ WF_vars(Timers)

\* the newest request of call c
NewestRequestOf(c) ==
    fetches[CHOOSE i \in RequestsOf(c) : \A h \in RequestsOf(c) : h <= i]

\* getRanking of call c is over: it returned or it threw
Settled(c) == calls[c].pc \in {"returned", "threw"}

\* call c slept and its request was given to the throttle again
GivenAgain(c) == calls[c].slept # Undefined /\ calls[c].pc # "sleeping"

\* the wait that a response without success asks for, in milliseconds
WaitAskedFor(retryAfterSec) ==
    IF retryAfterSec = NULL THEN 2000 ELSE retryAfterSec.num * 1000

\* no call is settled by a response without success; a request given again is
\* sent no earlier than the wait after the response; every request of a call
\* carries the title and the type of its first request
RetriedNotSettled ==
    \A c \in CallIds :
        /\ Settled(c) => calls[c].ok = Bool(TRUE)
        /\ calls[c].pc = "sleeping" => calls[c].ok = Bool(FALSE)
        /\ GivenAgain(c) =>
              LET again == NewestRequestOf(c)
              IN  /\ Cardinality(RequestsOf(c)) >= 2
                  /\ again.state # "queued" =>
                        again.sentAt >= calls[c].slept.since
                                        + WaitAskedFor(calls[c].slept.retryAfter)
        /\ \A i \in RequestsOf(c) :
              /\ fetches[i].title = cleanTitle(calls[c].media.providerTitle,
                                               calls[c].media.provider)
              /\ fetches[i].type = calls[c].media.type

\* the request of call c is with the service
WithService(c) ==
    /\ calls[c].pc = "fetching"
    /\ NewestRequestOf(c).state = "sent"

\* C21: a response without success never settles getRanking, neither with a
\* result nor with an error; the same title and type are sent again, no
\* earlier than Retry-After seconds (the interval of the throttle when the
\* header is absent) after the response; and every sleep leads to the request
\* being with the service again, as often as the service answers so
C21_RetriesUntilSuccess ==
    /\ []RetriedNotSettled
    /\ \A c \in CallIds : (calls[c].pc = "sleeping") ~> WithService(c)

\* a call returned with a rank after two responses without success, the last
\* of which asked for three seconds
C21_Witness ==
    \E c \in CallIds :
        /\ calls[c].pc = "returned"
        /\ calls[c].result # Undefined
        /\ Cardinality(RequestsOf(c)) = 3
        /\ calls[c].slept.retryAfter = Num(3)

-----------------------------------------------------------------------------
(* updateDatabase: the catalogs are fetched, diffed against the store, what is
   only in the store is archived, what is not in the store is resolved and
   inserted, one title after the other *)

MaxRuns == 3

\* the providers in the order of the command line
providerStrings == <<"Hulu", "Netflix">>

\* a media of the list that provider.getMedia() gives
CatalogMedia(provider, title) ==
    [providerTitle |-> title,
     type |-> "TV",
     providerURL |-> URLOf(<<"https://", provider, title>>),
     provider |-> provider]

\* the catalog of a provider with the titles
Catalog(provider, titleList) ==
    [i \in 1..Len(titleList) |-> CatalogMedia(provider, titleList[i])]

\* the outcome of provider.getMedia() in Promise.allSettled
Rejected == [status |-> "rejected", list |-> <<>>]
Fulfilled(list) == [status |-> "fulfilled", list |-> list]

\* the catalogs that the providers have at one time or another
HuluCatalogs ==
    {Catalog("Hulu", t) : t \in {<<TitleA>>, <<TitleA, TitleColon>>, <<TitleB>>}}
NetflixCatalogs == {Catalog("Netflix", <<TitleA>>)}

\* what the fetches of a run give
MediaFetches ==
    {[p \in Providers |-> IF p = "Hulu" THEN hulu ELSE netflix] :
        hulu \in {Rejected} \cup {Fulfilled(c) : c \in HuluCatalogs},
        netflix \in {Rejected} \cup {Fulfilled(c) : c \in NetflixCatalogs}}

\* a fetch that gives nothing as soon as one provider is rejected (Promise.all)
allOrNothing(mediaFetch) ==
    IF \E p \in Providers : mediaFetch[p].status = "rejected" THEN <<>>
    ELSE [i \in 1..Len(providerStrings) |->
             [provider |-> providerStrings[i], list |-> mediaFetch[providerStrings[i]].list]]

\* mediaFetch.filter((result) => result.status === "fulfilled").flatMap(value)
mediaListByProvider(mediaFetch) ==
    LET fulfilled(p) == mediaFetch[p].status = "fulfilled"
        kept == SelectSeq(providerStrings, fulfilled)
    IN  [i \in 1..Len(kept) |-> [provider |-> kept[i], list |-> mediaFetch[kept[i]].list]]

\* the loop over mediaListByProvider: mediaToAdd and mediaToDelete, or the
\* error that mediaDiff threw
RECURSIVE diffLoop(_, _, _)
diffLoop(db, lists, acc) ==
    IF lists = <<>> THEN acc
    ELSE LET d == mediaDiff(db, Head(lists).list, Str(Head(lists).provider))
         IN  IF d.error # "none" THEN [acc EXCEPT !.error = d.error]
             ELSE diffLoop(db, Tail(lists),
                           [mediaToAdd |-> acc.mediaToAdd \o d.result.notInDatabase,
                            mediaToDelete |-> acc.mediaToDelete \o d.result.onlyInDatabase,
                            error |-> "none"])

\* String.prototype.includes
includes(string, substring) ==
    \E i \in 0..(Len(string) - Len(substring)) :
        SubSeq(string, i + 1, i + Len(substring)) = substring

\* shuffle(list, seed): the list in an order that the seed decides
shuffle(list, seed) ==
    IF list = <<>> THEN <<>>
    ELSE LET n == Len(list)
         IN  [i \in 1..n |-> list[((i - 1 + seed) % n) + 1]]

\* the test options: none, --test-less-titles with a seed, --test-title
NoTestOptions == [testLessTitles |-> Undefined, testTitle |-> Undefined]
TestOptions ==
    {NoTestOptions,
     [testLessTitles |-> Num(1), testTitle |-> Undefined],
     [testLessTitles |-> Undefined, testTitle |-> [substrings |-> <<TitleB>>]]}

\* mediaToAdd after the test options: a tenth of the shuffled list and at
\* least one element, or the media whose title includes one of the substrings
testFilter(mediaToAdd, testOptions) ==
    IF testOptions.testLessTitles # Undefined
    THEN SubSeq(shuffle(mediaToAdd, testOptions.testLessTitles.num), 1,
                Min(Len(mediaToAdd), Max(1, Len(mediaToAdd) \div 10)))
    ELSE IF testOptions.testTitle # Undefined
    THEN LET some(media) == \E j \in 1..Len(testOptions.testTitle.substrings) :
                 includes(media.providerTitle, testOptions.testTitle.substrings[j])
         IN  SelectSeq(mediaToAdd, some)
    ELSE mediaToAdd

\* {...media, ...rank}: the entry that the run inserts, the Rank made at time
spread(media, rank, time) ==
    IF rank = Undefined
    THEN Entry(media.provider, media.providerTitle, media.type,
               Undefined, Undefined, Undefined, 0)
    ELSE Entry(media.provider, media.providerTitle, media.type,
               rank.rankId, rank.score, rank.rankerTitle, time)

\* what the scoring service holds for the titles of the catalogs: nothing, or
\* the series of title "A"
UpdatePages ==
    {<<>>,
     <<Result(1, [english |-> Str(TitleA), romaji |-> Str(TitleOther)], <<>>, Str("TV"))>>}

\* the run is over
RunOver == run.pc \in {"idle", "done", "aborted"}

\* what is kept of a run when the next one starts
PreviousRun ==
    IF run.pc = "idle" THEN Undefined
    ELSE [pc |-> run.pc, mediaFetch |-> run.mediaFetch, testOptions |-> run.testOptions]

\* updateDatabase(providerStrings, testOptions) up to the first getRanking: the
\* fetches settle, the fulfilled lists are diffed, the test options narrow
\* mediaToAdd, deleteMany archives mediaToDelete. An error of mediaDiff or of
\* deleteMany ends the run. Each value of the call is bound once.
UpdateDatabase(mediaFetch, testOptions) ==
    /\ RunOver
    /\ run.number < MaxRuns
    /\ \E diff \in {diffLoop(Tables, mediaListByProvider(mediaFetch),
                         [mediaToAdd |-> <<>>, mediaToDelete |-> <<>>, error |-> "none"])} :
       \E mediaToAdd \in {testFilter(diff.mediaToAdd, testOptions)} :
       \E deleted \in {IF diff.error = "none" /\ diff.mediaToDelete # <<>>
                   THEN deleteLoop(Tables, diff.mediaToDelete, <<>>)
                   ELSE [db |-> Tables, errors |-> <<>>]} :
       \E error \in {IF diff.error # "none" THEN diff.error
                 ELSE IF Len(deleted.errors) > 0 THEN "SomeNotInDatabase"
                 ELSE "none"} :
        /\ SetTables(deleted.db)
        /\ committed' = deleted.db
        /\ inTransaction' = FALSE
        /\ run' = [pc |-> IF error # "none" THEN "aborted"
                          ELSE IF mediaToAdd = <<>> THEN "done"
                          ELSE "adding",
                   number |-> run.number + 1,
                   mediaFetch |-> mediaFetch,
                   testOptions |-> testOptions,
                   mediaToAdd |-> IF diff.error = "none" THEN mediaToAdd ELSE <<>>,
                   mediaToDelete |-> diff.mediaToDelete,
                   resolved |-> 0,
                   error |-> error,
                   start |-> Tables,
                   previous |-> PreviousRun]
        /\ lastCall' = Call("updateDatabase", error, deleted.errors, <<>>)
        /\ UNCHANGED <<service, now, throttle, fetches, calls>>

\* one turn of the loop over mediaToAdd, the service answering with a
\* well-formed page: getRanking returns, database.insert writes the entry. An
\* error of insert ends the run.
GetRankingAndInsert(page) ==
    /\ run.pc = "adding"
    /\ \E media \in {run.mediaToAdd[run.resolved + 1]} :
       \E rank \in {getRanking(media, anilistResp_parse(page))} :
       \E entry \in {spread(media, rank, run.number)} :
       \E r \in {insert(Tables, entry)} :
       \E error \in {insertError(Tables, entry)} :
        /\ SetTables(r.db)
        /\ committed' = r.db
        /\ run' = [run EXCEPT
                      !.resolved = @ + 1,
                      !.error = error,
                      !.pc = IF r.threw THEN "aborted"
                             ELSE IF run.resolved + 1 = Len(run.mediaToAdd) THEN "done"
                             ELSE "adding"]
        /\ lastCall' = Call("insert", error, <<>>, <<>>)
        /\ UNCHANGED <<inTransaction, service, now, throttle, fetches, calls>>

\* one turn of the loop, the service answering with a success whose body is not
\* of the shape of #anilistResp: getRanking rejects, nothing catches it
GetRankingThrows ==
    /\ run.pc = "adding"
    /\ run' = [run EXCEPT !.resolved = @ + 1, !.error = "ZodError", !.pc = "aborted"]
    /\ lastCall' = Query("getRanking",
                         [media |-> run.mediaToAdd[run.resolved + 1], page |-> <<>>],
                         "ZodError", Undefined)
    /\ UNCHANGED <<Media, Ranks, Deleted, committed, inTransaction,
                   service, now, throttle, fetches, calls>>

InitUpdate ==
    /\ NoStore
    /\ NoResolver

NextUpdate ==
    \/ \E mediaFetch \in MediaFetches, testOptions \in TestOptions :
           UpdateDatabase(mediaFetch, testOptions)
    \/ \E page \in UpdatePages : GetRankingAndInsert(page)
    \/ GetRankingThrows

SpecUpdate == InitUpdate /\ [][NextUpdate]_vars

-----------------------------------------------------------------------------
\* A success of the scoring service whose body is malformed, in a run

\* C22 (as claimed): a success with malformed data makes the title one without
\* a match and raises nothing, so no run is ended by the error of the parse
C22_MalformedDoesNotAbort == ~(run.pc = "aborted" /\ run.error = "ZodError")

\* the keys of the media of a list from position a to position b
KeysFrom(list, a, b) == {KeyOf(list[i]) : i \in a..b}

\* what the code does instead: the run ends at the title of the malformed
\* response, the titles resolved before it are live, that title and those
\* following it are not inserted
C22_AbortKeepsEarlierOnly ==
    (run.pc = "aborted" /\ run.error = "ZodError") =>
        /\ KeysFrom(run.mediaToAdd, 1, run.resolved - 1) \subseteq KeysOf(Media)
        /\ KeysFrom(run.mediaToAdd, run.resolved, Len(run.mediaToAdd)) \cap KeysOf(Media) = {}

-----------------------------------------------------------------------------
\* A provider whose fetch is rejected, in a run

\* the providers of the run whose fetch was rejected, and those with a list
FailedSources == {p \in Providers : run.mediaFetch[p].status = "rejected"}
FetchedSources == {p \in Providers : run.mediaFetch[p].status = "fulfilled"}

\* the rows of a table that are of a provider
RowsOf(rows, p) == {m \in rows : m.provider = p}

\* what mediaDiff gives for provider p on the store at the start of the run
DiffAtStart(p) == mediaDiff(run.start, run.mediaFetch[p].list, Str(p)).result

\* provider p was diffed, and its part of the work was done as far as the run
\* went: what was only in the store was given to deleteMany, what was not in
\* the store is in the list to resolve (the part of it that the test options
\* keep), and at the end of the run the former is archived and the latter live
Proceeded(p) ==
    LET d == DiffAtStart(p)
    IN  /\ Range(d.onlyInDatabase) \subseteq Range(run.mediaToDelete)
        /\ run.error # "SomeNotInDatabase" =>
              /\ Range(testFilter(d.notInDatabase, run.testOptions)) \subseteq Range(run.mediaToAdd)
              /\ Range(d.onlyInDatabase) \subseteq KeysOf(Deleted)
        /\ run.pc = "done" =>
              KeysOf(Range(testFilter(d.notInDatabase, run.testOptions))) \subseteq KeysOf(Media)

\* C23: a run in which the fetch of a provider is rejected goes on with the
\* providers whose fetch gave a list: each of them is diffed, what is only in
\* the store is archived, what is not in the store is resolved and inserted; no
\* row of the rejected provider is archived, inserted or changed; and the run
\* ends early only on the errors that end a run without a rejected fetch
C23_FailedFetchSkipsSource ==
    (run.pc # "idle" /\ FailedSources # {}) =>
        /\ \A p \in FailedSources :
              /\ RowsOf(Media, p) = RowsOf(run.start.Media, p)
              /\ RowsOf(Deleted, p) = RowsOf(run.start.Deleted, p)
        /\ \A p \in FetchedSources : Proceeded(p)
        /\ run.pc = "aborted" => run.error \in {"ZodError", "SomeNotInDatabase"}

\* the fetch of Netflix was rejected in a run that found a row of Netflix live,
\* archived a title of Hulu and inserted another
C23_Witness ==
    /\ run.pc = "done"
    /\ FailedSources = {"Netflix"}
    /\ RowsOf(Media, "Netflix") # {}
    /\ run.mediaToDelete # <<>>
    /\ run.resolved >= 1
    /\ KeysOf(Range(run.mediaToAdd)) \subseteq KeysOf(Media)

-----------------------------------------------------------------------------
\* Incremental work of the runs

\* the keys of the media that the run has given to getRanking
SentKeys == KeysFrom(run.mediaToAdd, 1, run.resolved)

\* no key that was live at the start of the run is sent to the scoring
\* service, and no key is sent twice
LiveKeysNotSent ==
    /\ SentKeys \cap KeysOf(run.start.Media) = {}
    /\ Cardinality(SentKeys) = run.resolved

\* the run follows a completed run that fetched the same catalogs
FollowsCompleted ==
    /\ run.previous # Undefined
    /\ run.previous.pc = "done"
    /\ run.previous.mediaFetch = run.mediaFetch

\* the run has resolved nothing, and the store is as it was at its start:
\* nothing was inserted, nothing archived
NothingDone ==
    /\ run.resolved = 0
    /\ Tables = run.start

\* C24 (as claimed): a key live at the start of a run is not sent to the
\* scoring service, and a run that follows a completed one with the same
\* catalogs resolves, inserts and archives nothing
C24_IncrementalAsClaimed ==
    run.pc # "idle" =>
        /\ LiveKeysNotSent
        /\ FollowsCompleted => NothingDone

\* C24: a key live at the start of a run is not sent to the scoring service,
\* and a run that follows a run completed without test options, with the same
\* catalogs, resolves, inserts and archives nothing
C24_Incremental ==
    run.pc # "idle" =>
        /\ LiveKeysNotSent
        /\ (FollowsCompleted /\ run.previous.testOptions = NoTestOptions) => NothingDone

\* the third run has nothing to do after the second one, which resolved and
\* inserted two titles without test options; a title of the catalog was live
\* before the second run
C24_Witness ==
    /\ run.number = 3
    /\ run.pc = "done"
    /\ FollowsCompleted
    /\ run.previous.testOptions = NoTestOptions
    /\ NothingDone
    /\ Cardinality(Media) = 3

-----------------------------------------------------------------------------
\* The store after a completed run

\* the keys that the run fetched for provider p
FetchedKeys(p) == KeysOf(Range(run.mediaFetch[p].list))

\* the keys of provider p that were live at the start of the run
LiveAtStart(p) == KeysOf(RowsOf(run.start.Media, p))

\* a run without test options has come to its end: every getRanking returned
CompletedWithoutTestOptions == run.pc = "done" /\ run.testOptions = NoTestOptions

\* C27 (as claimed): after a run without test options that came to its end,
\* the live keys of every provider whose fetch gave a list are the keys of
\* that list
C27_LiveEqualsFetched ==
    CompletedWithoutTestOptions =>
        \A p \in FetchedSources : KeysOf(RowsOf(Media, p)) = FetchedKeys(p)

\* what holds of the code: the same, when no title that was live at the start
\* of the run and is no longer fetched holds a colon; then the keys not in the
\* store were resolved and are live, those only in the store are archived
C27_ExactWithoutColon ==
    CompletedWithoutTestOptions =>
        \A p \in FetchedSources :
            (\A k \in LiveAtStart(p) \ FetchedKeys(p) : ~includes(k.providerTitle, <<Colon>>)) =>
                /\ KeysOf(RowsOf(Media, p)) = FetchedKeys(p)
                /\ FetchedKeys(p) \ LiveAtStart(p) \subseteq SentKeys
                /\ LiveAtStart(p) \ FetchedKeys(p) \subseteq KeysOf(Deleted)

\* a run that archives and inserts and ends with the fetched keys live
C27_ExactReached ==
    /\ CompletedWithoutTestOptions
    /\ run.mediaToDelete # <<>>
    /\ run.resolved >= 1
    /\ \A p \in FetchedSources : KeysOf(RowsOf(Media, p)) = FetchedKeys(p)

=============================================================================
